---- MODULE Spec2Model ----
(***************************************************************************)
(* State-machine model of the car-rental backend: the auth guards and the  *)
(* token service (app/auth.py), the host and client auth routers, the car  *)
(* listing workflow (app/routers/cars.py) and the payment-method manager   *)
(* (app/routers/payment_methods.py).                                       *)
(*                                                                         *)
(* Optional values (Python None / a value) are sequences of length <= 1:   *)
(* None is <<>> and a value v is <<v>>.  HTTP status codes are strings.    *)
(* The clock `now` counts whole seconds, as the exp claim of a token does. *)
(***************************************************************************)
EXTENDS Integers, Sequences, FiniteSets, TLC

VARIABLES
    hosts,      \* table hosts: sequence of Host rows, id = position
    clients,    \* table clients: sequence of Client rows, id = position
    cars,       \* table cars: sequence of Car rows, id = position
    pms,        \* table payment_methods: set of committed PaymentMethod rows
    pm_seq,     \* last identity key handed out for payment_methods
    now,        \* the clock, in seconds
    issued,     \* tokens handed out by the login endpoints so far
    last,       \* the last request served and its response
    pc,         \* per worker: where its request in flight stands
    sess        \* per worker: the request in flight and what its session loaded

vars == <<hosts, clients, cars, pms, pm_seq, now, issued, last, pc, sess>>

None == <<>>
Some(v) == <<v>>

(***************************************************************************)
(* Bounds of the model.                                                    *)
(***************************************************************************)
MaxTime == 1801
MaxIssued == 1
MaxCars == 1
MaxPms == 2
MaxGuardPms == 1
MaxBasicsCars == 2

TickSteps == {900, 901}

(***************************************************************************)
(* app/auth.py: JWT settings.                                              *)
(***************************************************************************)
SECRET_KEY == "your-secret-key-change-in-production"
ACCESS_TOKEN_EXPIRE_MINUTES == 30
DEFAULT_EXPIRE_MINUTES == 15

\* timedelta(minutes=m), in seconds
timedelta_minutes(m) == m * 60

(***************************************************************************)
(* Text is a sequence of one-character strings.                            *)
(***************************************************************************)
UpperCase == <<"A", "B", "C", "D", "E", "F", "G", "H", "I", "J", "K", "L",
               "M", "N", "O", "P", "Q", "R", "S", "T", "U", "V", "W", "X",
               "Y", "Z">>
LowerCase == <<"a", "b", "c", "d", "e", "f", "g", "h", "i", "j", "k", "l",
               "m", "n", "o", "p", "q", "r", "s", "t", "u", "v", "w", "x",
               "y", "z">>

\* str.lower()
lower(text) ==
    [i \in 1..Len(text) |->
        IF \E k \in 1..Len(UpperCase) : UpperCase[k] = text[i]
        THEN LowerCase[CHOOSE k \in 1..Len(UpperCase) : UpperCase[k] = text[i]]
        ELSE text[i]]

\* `needle in text`
Contains(text, needle) ==
    \E i \in 0..(Len(text) - Len(needle)) :
        \A k \in 1..Len(needle) : text[i + k] = needle[k]

(***************************************************************************)
(* The outcome of a call: the value returned, or the exception raised.     *)
(***************************************************************************)
Returned(value) == [raised |-> FALSE, value |-> Some(value), error |-> ""]
Raised(error) == [raised |-> TRUE, value |-> None, error |-> error]

(***************************************************************************)
(* Password hasher.  A bcrypt digest carries its salt; it is modelled as   *)
(* the record of the salt and of the bytes of the secret that entered the  *)
(* digest.  bcrypt reads at most BcryptMaxBytes bytes of a secret: a       *)
(* longer one is cut to that length by bcrypt before 5.0 and refused with  *)
(* a ValueError from 5.0 on, so a call has the outcomes of either.  A      *)
(* string that does not start with a bcrypt salt has no salt to read; one  *)
(* that does, with a damaged remainder, is a digest of no secret.          *)
(***************************************************************************)
BcryptMaxBytes == 72

Digest(salt, secret) ==
    [alg |-> "bcrypt", salt |-> salt, secret |-> secret, intact |-> TRUE]

\* a string that is no bcrypt digest at all
NotADigest(text) ==
    [alg |-> "", salt |-> 0, secret |-> text, intact |-> FALSE]

\* a digest whose characters after the salt were damaged
DamagedDigest(salt, secret) ==
    [alg |-> "bcrypt", salt |-> salt, secret |-> secret, intact |-> FALSE]

\* the string starts with a bcrypt prefix, cost and salt
HasSalt(hashed) == hashed.alg = "bcrypt"

\* bcrypt.hashpw(password, salt): the outcomes the installed bcrypt may give
bcrypt_hashpw(password, salt) ==
    IF Len(password) <= BcryptMaxBytes
    THEN {Returned(Digest(salt, password))}
    ELSE {Returned(Digest(salt, SubSeq(password, 1, BcryptMaxBytes))),
          Raised("ValueError: password cannot be longer than 72 bytes")}

\* bcrypt.checkpw(password, hashed_password): hashes the password with the
\* salt of the digest and compares; ValueError when there is no salt
bcrypt_checkpw(password, hashed_password) ==
    IF ~HasSalt(hashed_password) THEN {Raised("ValueError: Invalid salt")}
    ELSE {IF h.raised THEN h ELSE Returned(h.value[1] = hashed_password) :
             h \in bcrypt_hashpw(password, hashed_password.salt)}

\* salt = bcrypt.gensalt() is the `salt` argument
get_password_hash(password, salt) == bcrypt_hashpw(password, salt)

verify_password(plain_password, hashed_password) ==
    bcrypt_checkpw(plain_password, hashed_password)

(***************************************************************************)
(* Token service.  A token is the signed claims; `key` is the secret it    *)
(* was signed with.  A claim that is absent is None.                       *)
(***************************************************************************)
Jwt(sub, role, exp, key) ==
    [kind |-> "jwt", sub |-> sub, role |-> role, exp |-> exp, key |-> key]

GarbageToken == [kind |-> "garbage"]

\* str(id) / int(str): the decimal strings of the ids the model uses
IdStrings == <<"1", "2", "3">>
str(id) == IdStrings[id]
IsIntString(s) == \E i \in 1..Len(IdStrings) : IdStrings[i] = s
int(s) == CHOOSE i \in 1..Len(IdStrings) : IdStrings[i] = s

\* a mutant of create_access_token: the expires_delta passed in is ignored
create_access_token_fallback(data, expires_delta, t) ==
    Jwt(Some(data.sub), Some(data.role),
        Some(t + timedelta_minutes(DEFAULT_EXPIRE_MINUTES)), SECRET_KEY)

\* `if expires_delta:` is false for None and for a zero timedelta
create_access_token(data, expires_delta, t) ==
    LET expire == IF expires_delta # None /\ expires_delta[1] # 0
                  THEN t + expires_delta[1]
                  ELSE t + timedelta_minutes(DEFAULT_EXPIRE_MINUTES)
    IN Jwt(Some(data.sub), Some(data.role), Some(expire), SECRET_KEY)

(***************************************************************************)
(* jose.jwt.decode(token, SECRET_KEY, algorithms=[ALGORITHM]) as the       *)
(* guards call it: the structure, then the signature, then the exp claim.  *)
(* python-jose raises ExpiredSignatureError when exp < now (whole          *)
(* seconds), so a token is still accepted during the second exp names.     *)
(***************************************************************************)
MsgSegments == "Not enough segments"
MsgSignature == "Signature verification failed."
MsgExpired == "Signature has expired."
\* jws._load: the first segment decodes to bytes json.loads refuses; the
\* message ends with the text of the json error
MsgHeader == "Invalid header string: Expecting value: line 1 column 1 (char 0)"
\* jwt._validate_exp: the exp claim is not a number
MsgExpInteger == "Expiration Time claim (exp) must be an integer."

JwtOk(payload) == [ok |-> TRUE, payload |-> payload, msg |-> ""]
JwtError(msg) == [ok |-> FALSE, payload |-> GarbageToken, msg |-> msg]

\* a string of three dot-separated segments whose first is not the base64url
\* of a JSON object, such as "ab.cd.ef"
HeaderlessToken == [kind |-> "no-json-header"]

\* signed claims whose exp is a text, not a number
JwtTextExp(sub, role, key) ==
    [kind |-> "jwt-text-exp", sub |-> sub, role |-> role, key |-> key]

\* a mutant of jwt_decode: the signature is not verified
jwt_decode_nosig(token, key, t) ==
    IF token.kind # "jwt" THEN JwtError(MsgSegments)
    ELSE IF token.exp # None /\ token.exp[1] < t THEN JwtError(MsgExpired)
    ELSE JwtOk(token)

\* a mutant of jwt_decode: the exp claim is not validated
jwt_decode_noexp(token, key, t) ==
    IF token.kind # "jwt" THEN JwtError(MsgSegments)
    ELSE IF token.key # key THEN JwtError(MsgSignature)
    ELSE JwtOk(token)

jwt_decode(token, key, t) ==
    IF token.kind = "garbage" THEN JwtError(MsgSegments)
    ELSE IF token.kind = "no-json-header" THEN JwtError(MsgHeader)
    ELSE IF token.key # key THEN JwtError(MsgSignature)
    ELSE IF token.kind = "jwt-text-exp" THEN JwtError(MsgExpInteger)
    ELSE IF token.exp # None /\ token.exp[1] < t THEN JwtError(MsgExpired)
    ELSE JwtOk(token)

\* the characters of str(e), for each message jwt.decode raises with
Characters(msg) ==
    CASE msg = MsgSegments ->
           <<"N", "o", "t", " ", "e", "n", "o", "u", "g", "h", " ", "s",
             "e", "g", "m", "e", "n", "t", "s">>
      [] msg = MsgSignature ->
           <<"S", "i", "g", "n", "a", "t", "u", "r", "e", " ", "v", "e",
             "r", "i", "f", "i", "c", "a", "t", "i", "o", "n", " ", "f",
             "a", "i", "l", "e", "d", ".">>
      [] msg = MsgExpired ->
           <<"S", "i", "g", "n", "a", "t", "u", "r", "e", " ", "h", "a",
             "s", " ", "e", "x", "p", "i", "r", "e", "d", ".">>
      [] msg = MsgHeader ->
           <<"I", "n", "v", "a", "l", "i", "d", " ", "h", "e", "a", "d",
             "e", "r", " ", "s", "t", "r", "i", "n", "g", ":", " ", "E",
             "x", "p", "e", "c", "t", "i", "n", "g", " ", "v", "a", "l",
             "u", "e", ":", " ", "l", "i", "n", "e", " ", "1", " ", "c",
             "o", "l", "u", "m", "n", " ", "1", " ", "(", "c", "h", "a",
             "r", " ", "0", ")">>
      [] msg = MsgExpInteger ->
           <<"E", "x", "p", "i", "r", "a", "t", "i", "o", "n", " ", "T",
             "i", "m", "e", " ", "c", "l", "a", "i", "m", " ", "(", "e",
             "x", "p", ")", " ", "m", "u", "s", "t", " ", "b", "e", " ",
             "a", "n", " ", "i", "n", "t", "e", "g", "e", "r", ".">>

\* the messages jwt.decode raises with
JwtMessages ==
    {MsgSegments, MsgSignature, MsgExpired, MsgHeader, MsgExpInteger}

\* the messages for which
\* "expired" in error_msg.lower() or "exp" in error_msg.lower()
ExpMessages ==
    {msg \in JwtMessages :
        \/ Contains(lower(Characters(msg)),
                    <<"e", "x", "p", "i", "r", "e", "d">>)
        \/ Contains(lower(Characters(msg)), <<"e", "x", "p">>)}

MentionsExp(msg) == msg \in ExpMessages

(***************************************************************************)
(* HTTPBearer(): the Authorization header must be present, with scheme     *)
(* Bearer and credentials; otherwise the request is rejected by the        *)
(* security dependency itself.                                             *)
(***************************************************************************)
NoHeader == [scheme |-> "", credentials |-> None]
Bearer(token) == [scheme |-> "Bearer", credentials |-> Some(token)]
BasicHeader == [scheme |-> "Basic", credentials |-> Some(GarbageToken)]
BearerEmpty == [scheme |-> "Bearer", credentials |-> None]

HTTPBearer(hdr) == hdr.scheme = "Bearer" /\ hdr.credentials # None

(***************************************************************************)
(* Auth guards.  A result is the principal's id, or the HTTPException.     *)
(***************************************************************************)
Authenticated(id) == [ok |-> TRUE, status |-> "200", detail |-> "", id |-> id]
HTTPException(status, detail) ==
    [ok |-> FALSE, status |-> status, detail |-> detail, id |-> 0]
NotAuthenticated == HTTPException("NotAuthenticated", "Not authenticated")

\* str(e) of an HTTPException
ExcStr(e) == e.status \o ": " \o e.detail

\* except JWTError as e
JwtFailure(msg) ==
    HTTPException("401",
        IF MentionsExp(msg) THEN "Token has expired"
        ELSE "Invalid token: " \o msg)

\* except Exception as e: an HTTPException raised inside the try block is
\* an Exception, so it is caught here and raised again as a 401
ExceptException(e) ==
    HTTPException("401", "Error validating token: " \o ExcStr(e))

RoleMismatch(role_name) ==
    ExceptException(HTTPException("403",
        "This endpoint requires " \o role_name \o " authentication"))

\* a mutant of TokenClaims: the role claim is not compared
TokenClaimsAnyRole(payload, role_name) ==
    IF payload.sub = None
    THEN ExceptException(HTTPException("401", "Token missing subject (sub) claim"))
    ELSE IF ~IsIntString(payload.sub[1])
    THEN ExceptException(HTTPException("401", "Invalid " \o role_name \o " ID in token"))
    ELSE Authenticated(int(payload.sub[1]))

TokenClaims(payload, role_name) ==
    IF payload.role # Some(role_name) THEN RoleMismatch(role_name)
    ELSE IF payload.sub = None
    THEN ExceptException(HTTPException("401", "Token missing subject (sub) claim"))
    ELSE IF ~IsIntString(payload.sub[1])
    THEN ExceptException(HTTPException("401", "Invalid " \o role_name \o " ID in token"))
    ELSE Authenticated(int(payload.sub[1]))

\* a mutant of Guard: the principal the sub names is not looked up
GuardWithoutLookup(hdr, t, table, role_name, missing) ==
    IF ~HTTPBearer(hdr) THEN NotAuthenticated
    ELSE LET d == jwt_decode(hdr.credentials[1], SECRET_KEY, t) IN
         IF ~d.ok THEN JwtFailure(d.msg)
         ELSE TokenClaims(d.payload, role_name)

Guard(hdr, t, table, role_name, missing) ==
    IF ~HTTPBearer(hdr) THEN NotAuthenticated
    ELSE LET d == jwt_decode(hdr.credentials[1], SECRET_KEY, t) IN
         IF ~d.ok THEN JwtFailure(d.msg)
         ELSE LET c == TokenClaims(d.payload, role_name) IN
              IF ~c.ok THEN c
              ELSE IF c.id \notin 1..Len(table)
              THEN HTTPException("401", missing)
              ELSE c

get_current_host(hdr, t, db_hosts) ==
    Guard(hdr, t, db_hosts, "host", "Host not found")

get_current_client(hdr, t, db_clients) ==
    Guard(hdr, t, db_clients, "client", "Client not found")

(***************************************************************************)
(* The response of the last request served: the operation, the header it   *)
(* carried, the time it was served at, the status and detail returned, the *)
(* principal it ran as (0 if none), the row it named or created (0 if      *)
(* none), the token returned, and the ids of the payment methods whose     *)
(* default flag the request cleared.  A handler may add the body the       *)
(* request carried (sent), the body it returned (body), the row it         *)
(* deleted (deleted) and the row as its query loaded it (loaded).          *)
(***************************************************************************)
Response(op, hdr, status, detail, who, target, token) ==
    [op |-> op, hdr |-> hdr, at |-> now, status |-> status,
     detail |-> detail, who |-> who, target |-> target, token |-> token,
     cleared |-> {}, sent |-> None, body |-> None, deleted |-> None,
     loaded |-> None]

Sending(response, request) == [response EXCEPT !.sent = Some(request)]

Returning(response, body) == [response EXCEPT !.body = Some(body)]

Loading(response, db_row) == [response EXCEPT !.loaded = Some(db_row)]

Deleting(response, payment_method) ==
    [response EXCEPT !.deleted = Some(payment_method)]

Clearing(response, existing_defaults) ==
    [response EXCEPT !.cleared = existing_defaults]

\* the response of a request its auth dependency rejected: the handler was
\* never called, so the response is the dependency's
Rejected(dependency, hdr, auth) ==
    Response(dependency, hdr, auth.status, auth.detail, 0, 0, None)

Workers == {"w1", "w2"}

NoSession == [op |-> "", hdr |-> NoHeader, host |-> 0, target |-> 0,
              promote |-> FALSE, row |-> None,
              target_was_default |-> FALSE, loaded |-> {}]

Init ==
    /\ hosts = <<>>
    /\ clients = <<>>
    /\ cars = <<>>
    /\ pms = {}
    /\ pm_seq = 0
    /\ now = 0
    /\ issued = {}
    /\ last = [op |-> "", hdr |-> NoHeader, at |-> 0, status |-> "",
               detail |-> "", who |-> 0, target |-> 0, token |-> None,
               cleared |-> {}, sent |-> None, body |-> None,
               deleted |-> None, loaded |-> None]
    /\ pc = [w \in Workers |-> "idle"]
    /\ sess = [w \in Workers |-> NoSession]

(***************************************************************************)
(* app/schemas.py: the register request validators.  EmailStr accepts an   *)
(* address with one "@", a local part and a dotted domain, and yields it   *)
(* with the domain in lower case; the local part keeps its case.           *)
(***************************************************************************)
AtSigns(value) == {i \in 1..Len(value) : value[i] = "@"}

\* the domain has at least two labels and no empty label
DomainValid(domain) ==
    /\ Len(domain) >= 3
    /\ \E i \in 1..Len(domain) : domain[i] = "."
    /\ domain[1] # "." /\ domain[Len(domain)] # "."
    /\ \A i \in 1..(Len(domain) - 1) : ~(domain[i] = "." /\ domain[i + 1] = ".")

EmailStr(value) ==
    IF Cardinality(AtSigns(value)) # 1 THEN None
    ELSE LET at == CHOOSE i \in AtSigns(value) : TRUE
             local_part == SubSeq(value, 1, at - 1)
             domain == SubSeq(value, at + 1, Len(value))
         IN IF local_part = <<>> \/ ~DomainValid(domain) THEN None
            ELSE Some(local_part \o <<"@">> \o lower(domain))

AnnEmail == <<"a", "n", "n", "@", "x", ".", "i", "o">>
BobEmail == <<"b", "o", "b", "@", "x", ".", "i", "o">>

ValidEmails == {AnnEmail, BobEmail}

Password1 == <<"p", "a", "s", "s", "w", "o", "r", "d", "1">>
Password2 == <<"p", "a", "s", "s", "w", "o", "r", "d", "2">>

RegisterRequest(full_name, email, password, password_confirmation) ==
    [full_name |-> full_name, email |-> email, password |-> password,
     password_confirmation |-> password_confirmation]

\* a mutant of RegisterRequestValid: passwords_match is not run
RegisterRequestValidUnmatched(request) ==
    /\ Len(request.full_name) >= 1 /\ Len(request.full_name) <= 255
    /\ EmailStr(request.email) # None
    /\ Len(request.password) >= 8
    /\ Len(request.password_confirmation) >= 8

RegisterRequestValid(request) ==
    /\ Len(request.full_name) >= 1 /\ Len(request.full_name) <= 255
    /\ EmailStr(request.email) # None
    /\ Len(request.password) >= 8
    /\ Len(request.password_confirmation) >= 8
    /\ request.password = request.password_confirmation

\* a mutant of get_by_email: no row is ever found
get_by_email_missing(table, email) == None

\* get_host_by_email / get_client_by_email: the first row with that email
get_by_email(table, email) ==
    LET found == {i \in 1..Len(table) : table[i].email = email} IN
    IF found = {} THEN None
    ELSE Some(table[CHOOSE i \in found : \A j \in found : i <= j])

Host(id, full_name, email, hashed_password) ==
    [id |-> id, full_name |-> full_name, email |-> email,
     hashed_password |-> hashed_password,
     bio |-> None, mobile_number |-> None, id_number |-> None]

Client(id, full_name, email, hashed_password) ==
    [id |-> id, full_name |-> full_name, email |-> email,
     hashed_password |-> hashed_password,
     bio |-> None, fun_fact |-> None, mobile_number |-> None,
     id_number |-> None]

AuthFrame == UNCHANGED <<cars, pms, pm_seq, now, pc, sess>>

(***************************************************************************)
(* app/routers/host_auth.py                                                *)
(***************************************************************************)
register_host(request, salt) ==
    /\ IF ~RegisterRequestValid(request)
       THEN /\ last' = Sending(Response("register_host", NoHeader, "422",
                                        "validation", 0, 0, None), request)
            /\ UNCHANGED hosts
       ELSE IF get_by_email(hosts, EmailStr(request.email)[1]) # None
       THEN /\ last' = Sending(Response("register_host", NoHeader, "400",
                                   "Email already registered", 0, 0, None),
                               request)
            /\ UNCHANGED hosts
       ELSE \E hashed_password \in get_password_hash(request.password, salt) :
            IF hashed_password.raised
            THEN /\ last' = Sending(Response("register_host", NoHeader,
                                        "500", "Internal Server Error",
                                        0, 0, None), request)
                 /\ UNCHANGED hosts
            ELSE /\ hosts' = Append(hosts,
                        Host(Len(hosts) + 1, request.full_name,
                             EmailStr(request.email)[1],
                             hashed_password.value[1]))
                 /\ last' = Sending(Response("register_host", NoHeader,
                                        "201", "", 0, Len(hosts) + 1, None),
                                    request)
    /\ UNCHANGED <<clients, issued>>
    /\ AuthFrame

LoginRequest(email, password) == [email |-> email, password |-> password]

login(op, table, role_name, request) ==
    LET email == EmailStr(request.email)
        row == get_by_email(table, email[1])
    IN
    IF email = None
    THEN /\ last' = Sending(Response(op, NoHeader, "422", "validation",
                                     0, 0, None), request)
         /\ UNCHANGED issued
    ELSE IF row = None
    THEN /\ last' = Sending(Response(op, NoHeader, "401",
                                "Incorrect email or password", 0, 0, None),
                            request)
         /\ UNCHANGED issued
    ELSE \E verified \in verify_password(request.password,
                                         row[1].hashed_password) :
         IF verified.raised
         THEN /\ last' = Sending(Response(op, NoHeader, "500",
                                     "Internal Server Error", 0, 0, None),
                                 request)
              /\ UNCHANGED issued
         ELSE IF ~verified.value[1]
         THEN /\ last' = Sending(Response(op, NoHeader, "401",
                                     "Incorrect email or password",
                                     0, 0, None), request)
              /\ UNCHANGED issued
         ELSE LET access_token ==
                      create_access_token(
                          [sub |-> str(row[1].id), role |-> role_name],
                          Some(timedelta_minutes(ACCESS_TOKEN_EXPIRE_MINUTES)),
                          now)
              IN /\ access_token \in issued \/ Cardinality(issued) < MaxIssued
                 /\ issued' = issued \cup {access_token}
                 /\ last' = Sending(Response(op, NoHeader, "200", "", 0,
                                             row[1].id, Some(access_token)),
                                    request)

login_host(request) ==
    /\ login("login_host", hosts, "host", request)
    /\ UNCHANGED <<hosts, clients>>
    /\ AuthFrame

\* a mutant of logout_host: the token is struck off a server-side list
logout_host_revoking(hdr) ==
    LET auth == get_current_host(hdr, now, hosts) IN
    /\ IF ~auth.ok
       THEN /\ last' = Rejected("get_current_host", hdr, auth)
            /\ UNCHANGED issued
       ELSE /\ last' = Response("logout_host", hdr, "200",
                                "Successfully logged out", auth.id, 0, None)
            /\ issued' = issued \ {hdr.credentials[1]}
    /\ UNCHANGED <<hosts, clients>>
    /\ AuthFrame

logout_host(hdr) ==
    LET auth == get_current_host(hdr, now, hosts) IN
    /\ IF ~auth.ok THEN last' = Rejected("get_current_host", hdr, auth)
       ELSE last' = Response("logout_host", hdr, "200",
                             "Successfully logged out", auth.id, 0, None)
    /\ UNCHANGED <<hosts, clients, issued>>
    /\ AuthFrame

get_current_host_info(hdr) ==
    LET auth == get_current_host(hdr, now, hosts) IN
    /\ IF ~auth.ok THEN last' = Rejected("get_current_host", hdr, auth)
       ELSE last' = Response("get_current_host_info", hdr, "200", "",
                             auth.id, auth.id, None)
    /\ UNCHANGED <<hosts, clients, issued>>
    /\ AuthFrame

ProfileUpdate(bio, mobile_number, id_number) ==
    [bio |-> bio, mobile_number |-> mobile_number, id_number |-> id_number]

ProfileUpdateValid(request) ==
    /\ request.bio # None => Len(request.bio[1]) <= 2000
    /\ request.mobile_number # None => Len(request.mobile_number[1]) <= 50
    /\ request.id_number # None => Len(request.id_number[1]) <= 100

update_host_profile(hdr, request) ==
    LET auth == get_current_host(hdr, now, hosts) IN
    /\ IF ~auth.ok
       THEN /\ last' = Rejected("get_current_host", hdr, auth)
            /\ UNCHANGED hosts
       ELSE IF ~ProfileUpdateValid(request)
       THEN /\ last' = Response("update_host_profile", hdr, "422",
                                "validation", auth.id, 0, None)
            /\ UNCHANGED hosts
       ELSE LET h == hosts[auth.id] IN
            /\ hosts' = [hosts EXCEPT ![auth.id] =
                   [h EXCEPT
                      !.bio = IF request.bio # None THEN request.bio ELSE @,
                      !.mobile_number = IF request.mobile_number # None
                                        THEN request.mobile_number ELSE @,
                      !.id_number = IF request.id_number # None
                                    THEN request.id_number ELSE @]]
            /\ last' = Response("update_host_profile", hdr, "200", "",
                                auth.id, auth.id, None)
    /\ UNCHANGED <<clients, issued>>
    /\ AuthFrame

(***************************************************************************)
(* app/routers/client_auth.py                                              *)
(***************************************************************************)
register_client(request, salt) ==
    /\ IF ~RegisterRequestValid(request)
       THEN /\ last' = Sending(Response("register_client", NoHeader, "422",
                                        "validation", 0, 0, None), request)
            /\ UNCHANGED clients
       ELSE IF get_by_email(clients, EmailStr(request.email)[1]) # None
       THEN /\ last' = Sending(Response("register_client", NoHeader, "400",
                                   "Email already registered", 0, 0, None),
                               request)
            /\ UNCHANGED clients
       ELSE \E hashed_password \in get_password_hash(request.password, salt) :
            IF hashed_password.raised
            THEN /\ last' = Sending(Response("register_client", NoHeader,
                                        "500", "Internal Server Error",
                                        0, 0, None), request)
                 /\ UNCHANGED clients
            ELSE /\ clients' = Append(clients,
                        Client(Len(clients) + 1, request.full_name,
                             EmailStr(request.email)[1],
                             hashed_password.value[1]))
                 /\ last' = Sending(Response("register_client", NoHeader,
                                        "201", "", 0, Len(clients) + 1, None),
                                    request)
    /\ UNCHANGED <<hosts, issued>>
    /\ AuthFrame

login_client(request) ==
    /\ login("login_client", clients, "client", request)
    /\ UNCHANGED <<hosts, clients>>
    /\ AuthFrame

logout_client(hdr) ==
    LET auth == get_current_client(hdr, now, clients) IN
    /\ IF ~auth.ok THEN last' = Rejected("get_current_client", hdr, auth)
       ELSE last' = Response("logout_client", hdr, "200",
                             "Successfully logged out", auth.id, 0, None)
    /\ UNCHANGED <<hosts, clients, issued>>
    /\ AuthFrame

get_current_client_info(hdr) ==
    LET auth == get_current_client(hdr, now, clients) IN
    /\ IF ~auth.ok THEN last' = Rejected("get_current_client", hdr, auth)
       ELSE last' = Response("get_current_client_info", hdr, "200", "",
                             auth.id, auth.id, None)
    /\ UNCHANGED <<hosts, clients, issued>>
    /\ AuthFrame

(***************************************************************************)
(* Calls of the password hasher: the arguments are recorded as the request *)
(* and the outcome as the body.                                            *)
(***************************************************************************)
call_get_password_hash(password, salt) ==
    /\ \E hashed \in get_password_hash(password, salt) :
          last' = Returning(
              Sending(Response("get_password_hash", NoHeader, "", "",
                               0, 0, None),
                      [password |-> password, salt |-> salt]),
              hashed)
    /\ UNCHANGED <<hosts, clients, issued>>
    /\ AuthFrame

call_verify_password(plain_password, hashed_password) ==
    /\ \E verified \in verify_password(plain_password, hashed_password) :
          last' = Returning(
              Sending(Response("verify_password", NoHeader, "", "",
                               0, 0, None),
                      [plain_password |-> plain_password,
                       hashed_password |-> hashed_password]),
              verified)
    /\ UNCHANGED <<hosts, clients, issued>>
    /\ AuthFrame

(***************************************************************************)
(* SpecHash: the hasher called with secrets shorter and longer than the    *)
(* bcrypt limit and with strings that are digests, damaged digests and no  *)
(* digests; a host registers and logs in with the same secrets.            *)
(***************************************************************************)
\* BcryptMaxBytes times "a", then the given last character
LongPassword(last_char) ==
    [i \in 1..BcryptMaxBytes |-> "a"] \o <<last_char>>

Secrets == {Password1, Password2, LongPassword("b"), LongPassword("c")}

Salts == {1, 2}

\* the digests get_password_hash returns for the secrets and salts
Digests ==
    {h.value[1] : h \in {o \in UNION {get_password_hash(x, n) :
                                          x \in Secrets, n \in Salts} :
                            ~o.raised}}

HashStrings ==
    Digests \cup {DamagedDigest(1, Password1), NotADigest(<<>>),
                  NotADigest(<<"n", "o", "t", "-", "a", "-", "h", "a", "s",
                               "h">>)}

NextHash ==
    \/ \E x \in Secrets, n \in Salts : call_get_password_hash(x, n)
    \/ \E y \in Secrets, h \in HashStrings : call_verify_password(y, h)
    \/ \E x \in Secrets, n \in Salts :
          register_host(RegisterRequest("Ann", AnnEmail, x, x), n)
    \/ \E y \in Secrets : login_host(LoginRequest(AnnEmail, y))

SpecHash == Init /\ [][NextHash]_vars

(***************************************************************************)
(* SpecRegister: hosts and clients register with addresses that differ in  *)
(* the case of the local part or of the domain, with an address that has   *)
(* no "@", and with passwords that match, differ or are too short.         *)
(***************************************************************************)
AnnEmailUpperDomain == <<"a", "n", "n", "@", "X", ".", "I", "O">>
AnnEmailUpperLocal == <<"A", "n", "n", "@", "x", ".", "i", "o">>
NoAtEmail == <<"a", "n", "n", ".", "x", ".", "i", "o">>

ShortPassword == <<"s", "h", "o", "r", "t">>

RegisterBodies ==
    {RegisterRequest("Ann", e, p, c) :
        e \in {AnnEmail, AnnEmailUpperDomain, AnnEmailUpperLocal, NoAtEmail},
        p \in {Password1, Password2, ShortPassword},
        c \in {Password1, Password2, ShortPassword}}

NextRegister ==
    \/ \E r \in RegisterBodies : register_host(r, 1)
    \/ \E r \in RegisterBodies : register_client(r, 1)

SpecRegister == Init /\ [][NextRegister]_vars

(***************************************************************************)
(* The clock advances between requests.                                    *)
(***************************************************************************)
Tick(d) ==
    /\ now + d <= MaxTime
    /\ now' = now + d
    /\ UNCHANGED <<hosts, clients, cars, pms, pm_seq, issued, last, pc, sess>>

(***************************************************************************)
(* app/models.py Car, app/schemas.py car requests, app/routers/cars.py     *)
(***************************************************************************)
\* a mutant of Car: the new row is already located and complete
CarLocated(id, host_id, request) ==
    [id |-> id, host_id |-> host_id,
     name |-> Some(request.name), model |-> Some(request.model),
     body_type |-> Some(request.body_type), year |-> Some(request.year),
     description |-> Some(request.description),
     seats |-> None, fuel_type |-> None, transmission |-> None,
     color |-> None, mileage |-> None, features |-> None,
     daily_rate |-> None, weekly_rate |-> None, monthly_rate |-> None,
     min_rental_days |-> None, max_rental_days |-> None,
     min_age_requirement |-> None, rules |-> None,
     location_name |-> Some("Downtown Parking"), latitude |-> None,
     longitude |-> None, is_complete |-> TRUE]

Car(id, host_id, request) ==
    [id |-> id, host_id |-> host_id,
     name |-> Some(request.name), model |-> Some(request.model),
     body_type |-> Some(request.body_type), year |-> Some(request.year),
     description |-> Some(request.description),
     seats |-> None, fuel_type |-> None, transmission |-> None,
     color |-> None, mileage |-> None, features |-> None,
     daily_rate |-> None, weekly_rate |-> None, monthly_rate |-> None,
     min_rental_days |-> None, max_rental_days |-> None,
     min_age_requirement |-> None, rules |-> None,
     location_name |-> None, latitude |-> None, longitude |-> None,
     is_complete |-> FALSE]

CarBasicsValid(request) ==
    /\ Len(request.name) >= 1 /\ Len(request.name) <= 255
    /\ Len(request.model) >= 1 /\ Len(request.model) <= 100
    /\ Len(request.body_type) >= 1 /\ Len(request.body_type) <= 50
    /\ request.year >= 1900 /\ request.year <= 2100
    /\ Len(request.description) >= 1

CarTechnicalSpecsValid(request) ==
    /\ request.seats >= 1 /\ request.seats <= 50
    /\ Len(request.fuel_type) >= 1 /\ Len(request.fuel_type) <= 50
    /\ Len(request.transmission) >= 1 /\ Len(request.transmission) <= 50
    /\ Len(request.color) >= 1 /\ Len(request.color) <= 50
    /\ request.mileage >= 0
    /\ Len(request.features) <= 12

\* a mutant of CarPricingRulesRequest: 0 is kept as it was sent
CarPricingRulesRequestKeepsZero(request) ==
    IF ~(/\ request.daily_rate > 0 /\ request.weekly_rate > 0
         /\ request.monthly_rate > 0
         /\ request.min_rental_days >= 1
         /\ request.min_age_requirement >= 18
         /\ request.min_age_requirement <= 100
         /\ Len(request.rules) >= 1)
    THEN None
    ELSE IF request.max_rental_days = None THEN Some(request)
    ELSE IF request.max_rental_days[1] < 0 THEN None
    ELSE Some(request)

\* CarPricingRulesRequest with validate_max_rental_days: the request as the
\* handler receives it, or None when validation fails
CarPricingRulesRequest(request) ==
    IF ~(/\ request.daily_rate > 0 /\ request.weekly_rate > 0
         /\ request.monthly_rate > 0
         /\ request.min_rental_days >= 1
         /\ request.min_age_requirement >= 18
         /\ request.min_age_requirement <= 100
         /\ Len(request.rules) >= 1)
    THEN None
    ELSE IF request.max_rental_days = None THEN Some(request)
    ELSE IF request.max_rental_days[1] = 0
    THEN Some([request EXCEPT !.max_rental_days = None])
    ELSE IF request.max_rental_days[1] < 1 THEN None
    ELSE Some(request)

\* Python truthiness of an Optional[str]
Truthy(opt_str) == opt_str # None /\ opt_str[1] # ""

\* CarLocationRequest with location_provided
CarLocationValid(request) ==
    /\ request.location_name # None => Len(request.location_name[1]) <= 255
    /\ request.latitude # None =>
           request.latitude[1] >= -90 /\ request.latitude[1] <= 90
    /\ request.longitude # None =>
           request.longitude[1] >= -180 /\ request.longitude[1] <= 180
    /\ ~(~Truthy(request.location_name)
         /\ (request.latitude = None \/ request.longitude = None))
    /\ ~(Truthy(request.location_name)
         /\ (request.latitude # None \/ request.longitude # None))
    /\ ~((request.latitude # None /\ request.longitude = None)
         \/ (request.latitude = None /\ request.longitude # None))

\* json.dumps of a list of strings: the text as a sequence of characters,
\* each string quoted with " and \ escaped, the items separated by ", "
RECURSIVE JsonEscape(_)
JsonEscape(chars) ==
    IF chars = <<>> THEN <<>>
    ELSE (IF Head(chars) \in {"\"", "\\"} THEN <<"\\", Head(chars)>>
          ELSE <<Head(chars)>>) \o JsonEscape(Tail(chars))

RECURSIVE JsonItems(_)
JsonItems(list) ==
    IF list = <<>> THEN <<>>
    ELSE <<"\"">> \o JsonEscape(Head(list)) \o <<"\"">>
         \o (IF Tail(list) = <<>> THEN <<>> ELSE <<",", " ">>)
         \o JsonItems(Tail(list))

json_dumps(list) == <<"[">> \o JsonItems(list) \o <<"]">>

\* json.loads of an array of strings, read from position i: the list, or
\* None when the text ends early (json.JSONDecodeError)
RECURSIVE JsonParse(_, _, _, _, _)
JsonParse(text, i, in_string, item, items) ==
    IF i > Len(text) THEN None
    ELSE IF in_string
    THEN IF text[i] = "\\"
         THEN IF i + 1 > Len(text) THEN None
              ELSE JsonParse(text, i + 2, TRUE, Append(item, text[i + 1]),
                             items)
         ELSE IF text[i] = "\""
         THEN JsonParse(text, i + 1, FALSE, <<>>, Append(items, item))
         ELSE JsonParse(text, i + 1, TRUE, Append(item, text[i]), items)
    ELSE IF text[i] = "\"" THEN JsonParse(text, i + 1, TRUE, <<>>, items)
    ELSE IF text[i] = "]" THEN Some(items)
    ELSE JsonParse(text, i + 1, FALSE, item, items)

json_loads(text) ==
    IF text = <<>> \/ text[1] # "[" THEN None
    ELSE JsonParse(text, 2, FALSE, <<>>, <<>>)

\* _car_to_response: the features column decoded when it is truthy (None
\* when it is null, empty or does not decode), every other column as is
car_to_response(db_car) ==
    [db_car EXCEPT !.features =
        IF db_car.features # None /\ db_car.features[1] # <<>>
        THEN json_loads(db_car.features[1]) ELSE None]

CarFrame == UNCHANGED <<hosts, clients, pms, pm_seq, now, issued, pc, sess>>

create_car_basics(hdr, request) ==
    LET auth == get_current_host(hdr, now, hosts) IN
    /\ IF ~auth.ok
       THEN /\ last' = Rejected("get_current_host", hdr, auth)
            /\ UNCHANGED cars
       ELSE IF ~CarBasicsValid(request)
       THEN /\ last' = Response("create_car_basics", hdr, "422",
                                "validation", auth.id, 0, None)
            /\ UNCHANGED cars
       ELSE /\ cars' = Append(cars, Car(Len(cars) + 1, auth.id, request))
            /\ last' = Returning(
                   Response("create_car_basics", hdr, "201", "",
                            auth.id, Len(cars) + 1, None),
                   car_to_response(Car(Len(cars) + 1, auth.id, request)))
    /\ CarFrame

\* a mutant of CarAccess: the owner is not compared with the caller
CarAccessAnyHost(car_id, host_id) ==
    IF car_id \notin 1..Len(cars)
    THEN Some(HTTPException("404", "Car not found"))
    ELSE None

\* a mutant of CarAccess: a missing car is reported as not the caller's
CarAccessForbidsMissing(car_id, host_id) ==
    IF car_id \notin 1..Len(cars) \/ cars[car_id].host_id # host_id
    THEN Some(HTTPException("403",
                  "You don't have permission to update this car"))
    ELSE None

\* db.query(Car).filter(Car.id == car_id).first(), then the ownership check:
\* the HTTPException to raise, or None when the caller owns the car
CarAccess(car_id, host_id) ==
    IF car_id \notin 1..Len(cars)
    THEN Some(HTTPException("404", "Car not found"))
    ELSE IF cars[car_id].host_id # host_id
    THEN Some(HTTPException("403",
                  "You don't have permission to update this car"))
    ELSE None

\* a mutant of SpecsWrite: the stage also resets the completion flag
SpecsWriteResets(db_car, request) ==
    [db_car EXCEPT
       !.seats = Some(request.seats),
       !.fuel_type = Some(request.fuel_type),
       !.transmission = Some(request.transmission),
       !.color = Some(request.color),
       !.mileage = Some(request.mileage),
       !.features = IF request.features # <<>>
                    THEN Some(json_dumps(request.features)) ELSE None,
       !.is_complete = FALSE]

\* update_car_specs: the row after the stage's assignments
SpecsWrite(db_car, request) ==
    [db_car EXCEPT
       !.seats = Some(request.seats),
       !.fuel_type = Some(request.fuel_type),
       !.transmission = Some(request.transmission),
       !.color = Some(request.color),
       !.mileage = Some(request.mileage),
       !.features = IF request.features # <<>>
                    THEN Some(json_dumps(request.features)) ELSE None]

update_car_specs(hdr, car_id, request) ==
    LET auth == get_current_host(hdr, now, hosts)
        denied == CarAccess(car_id, auth.id)
    IN
    /\ IF ~auth.ok
       THEN /\ last' = Rejected("get_current_host", hdr, auth)
            /\ UNCHANGED cars
       ELSE IF ~CarTechnicalSpecsValid(request)
       THEN /\ last' = Sending(
                   Response("update_car_specs", hdr, "422", "validation",
                            auth.id, car_id, None), request)
            /\ UNCHANGED cars
       ELSE IF denied # None
       THEN /\ last' = Sending(
                   Response("update_car_specs", hdr, denied[1].status,
                            denied[1].detail, auth.id, car_id, None), request)
            /\ UNCHANGED cars
       ELSE /\ cars' = [cars EXCEPT ![car_id] = SpecsWrite(@, request)]
            /\ last' = Returning(
                   Sending(Response("update_car_specs", hdr, "200", "",
                                    auth.id, car_id, None), request),
                   car_to_response(SpecsWrite(cars[car_id], request)))
    /\ CarFrame

\* a mutant of PricingWrite: the stage also clears the technical specs
PricingWriteClearsSpecs(db_car, request) ==
    [db_car EXCEPT
       !.daily_rate = Some(request.daily_rate),
       !.weekly_rate = Some(request.weekly_rate),
       !.monthly_rate = Some(request.monthly_rate),
       !.min_rental_days = Some(request.min_rental_days),
       !.max_rental_days = request.max_rental_days,
       !.min_age_requirement = Some(request.min_age_requirement),
       !.rules = Some(request.rules),
       !.seats = None, !.features = None]

\* a mutant of PricingWrite: the stage also marks the car complete
PricingWriteCompletes(db_car, request) ==
    [db_car EXCEPT
       !.daily_rate = Some(request.daily_rate),
       !.weekly_rate = Some(request.weekly_rate),
       !.monthly_rate = Some(request.monthly_rate),
       !.min_rental_days = Some(request.min_rental_days),
       !.max_rental_days = request.max_rental_days,
       !.min_age_requirement = Some(request.min_age_requirement),
       !.rules = Some(request.rules),
       !.is_complete = TRUE]

\* update_car_pricing: the row after the stage's assignments
PricingWrite(db_car, request) ==
    [db_car EXCEPT
       !.daily_rate = Some(request.daily_rate),
       !.weekly_rate = Some(request.weekly_rate),
       !.monthly_rate = Some(request.monthly_rate),
       !.min_rental_days = Some(request.min_rental_days),
       !.max_rental_days = request.max_rental_days,
       !.min_age_requirement = Some(request.min_age_requirement),
       !.rules = Some(request.rules)]

update_car_pricing(hdr, car_id, raw_request) ==
    LET auth == get_current_host(hdr, now, hosts)
        request == CarPricingRulesRequest(raw_request)
        denied == CarAccess(car_id, auth.id)
    IN
    /\ IF ~auth.ok
       THEN /\ last' = Rejected("get_current_host", hdr, auth)
            /\ UNCHANGED cars
       ELSE IF request = None
       THEN /\ last' = Sending(
                   Response("update_car_pricing", hdr, "422", "validation",
                            auth.id, car_id, None), raw_request)
            /\ UNCHANGED cars
       ELSE IF denied # None
       THEN /\ last' = Sending(
                   Response("update_car_pricing", hdr, denied[1].status,
                            denied[1].detail, auth.id, car_id, None), raw_request)
            /\ UNCHANGED cars
       ELSE /\ cars' = [cars EXCEPT ![car_id] = PricingWrite(@, request[1])]
            /\ last' = Returning(
                   Sending(Response("update_car_pricing", hdr, "200", "",
                                    auth.id, car_id, None), raw_request),
                   car_to_response(PricingWrite(cars[car_id], request[1])))
    /\ CarFrame

\* a mutant of LocationWrite: the other representation is not cleared
LocationWriteKeepsOther(db_car, request) ==
    IF Truthy(request.location_name)
    THEN [db_car EXCEPT !.location_name = request.location_name,
                        !.is_complete = TRUE]
    ELSE [db_car EXCEPT !.latitude = request.latitude,
                        !.longitude = request.longitude,
                        !.is_complete = TRUE]

\* update_car_location: the row after the stage's assignments
LocationWrite(db_car, request) ==
    IF Truthy(request.location_name)
    THEN [db_car EXCEPT !.location_name = request.location_name,
                        !.latitude = None, !.longitude = None,
                        !.is_complete = TRUE]
    ELSE [db_car EXCEPT !.location_name = None,
                        !.latitude = request.latitude,
                        !.longitude = request.longitude,
                        !.is_complete = TRUE]

update_car_location(hdr, car_id, request) ==
    LET auth == get_current_host(hdr, now, hosts)
        denied == CarAccess(car_id, auth.id)
    IN
    /\ IF ~auth.ok
       THEN /\ last' = Rejected("get_current_host", hdr, auth)
            /\ UNCHANGED cars
       ELSE IF ~CarLocationValid(request)
       THEN /\ last' = Sending(
                   Response("update_car_location", hdr, "422", "validation",
                            auth.id, car_id, None), request)
            /\ UNCHANGED cars
       ELSE IF denied # None
       THEN /\ last' = Sending(
                   Response("update_car_location", hdr, denied[1].status,
                            denied[1].detail, auth.id, car_id, None), request)
            /\ UNCHANGED cars
       ELSE /\ cars' = [cars EXCEPT ![car_id] = LocationWrite(@, request)]
            /\ last' = Loading(
                   Returning(
                     Sending(Response("update_car_location", hdr, "200", "",
                                      auth.id, car_id, None), request),
                     car_to_response(LocationWrite(cars[car_id], request))),
                   cars[car_id])
    /\ CarFrame

\* get_car: no auth dependency
get_car(hdr, car_id) ==
    /\ IF car_id \notin 1..Len(cars)
       THEN last' = Response("get_car", hdr, "404", "Car not found",
                             0, car_id, None)
       ELSE last' = Returning(
                Response("get_car", hdr, "200", "", 0, car_id, None),
                car_to_response(cars[car_id]))
    /\ UNCHANGED cars
    /\ CarFrame

\* list_cars: no auth dependency; the rows skip+1 .. skip+limit
list_cars_rows(skip, limit) ==
    [i \in 1..(IF Len(cars) - skip < limit
               THEN (IF Len(cars) - skip < 0 THEN 0 ELSE Len(cars) - skip)
               ELSE limit) |-> car_to_response(cars[skip + i])]

list_cars(hdr, skip, limit) ==
    /\ last' = Returning(
                   Sending(Response("list_cars", hdr, "200", "", 0, 0, None),
                           [skip |-> skip, limit |-> limit]),
                   list_cars_rows(skip, limit))
    /\ UNCHANGED cars
    /\ CarFrame

\* a mutant of list_my_cars_rows: every row, whoever owns it
list_every_host_rows(host_id) ==
    {car_to_response(cars[i]) : i \in 1..Len(cars)}

\* list_my_cars: the rows whose host_id is the caller's
list_my_cars_rows(host_id) ==
    {car_to_response(cars[i]) : i \in {j \in 1..Len(cars) :
                                          cars[j].host_id = host_id}}

list_my_cars(hdr) ==
    LET auth == get_current_host(hdr, now, hosts) IN
    /\ IF ~auth.ok THEN last' = Rejected("get_current_host", hdr, auth)
       ELSE last' = Returning(
                Response("list_my_cars", hdr, "200", "", auth.id, 0, None),
                list_my_cars_rows(auth.id))
    /\ UNCHANGED cars
    /\ CarFrame

(***************************************************************************)
(* app/schemas.py: payment-method requests.  Numbers are sequences of      *)
(* one-character strings.                                                  *)
(***************************************************************************)
Digits == {"0", "1", "2", "3", "4", "5", "6", "7", "8", "9"}
Whitespace == {" ", "\t", "\n"}

\* re.sub(r'[\s-]', '', text) and re.sub(r'[\s]', '', text)
Strip(text, drop) ==
    LET Keep(c) == c \notin drop IN SelectSeq(text, Keep)

\* re.match(r'^\d{lo,hi}$', text)
DigitsOfLength(text, lo, hi) ==
    /\ Len(text) >= lo /\ Len(text) <= hi
    /\ \A i \in 1..Len(text) : text[i] \in Digits

\* MpesaPaymentMethodAddRequest with validate_mpesa_number: the request as
\* the handler receives it (the number cleaned), or None when validation fails
MpesaPaymentMethodAddRequest(request) ==
    LET mpesa_clean == Strip(request.mpesa_number, Whitespace \cup {"-"}) IN
    IF Len(request.mpesa_number) > 20 THEN None
    ELSE IF request.mpesa_number = <<>> THEN None
    ELSE IF ~DigitsOfLength(mpesa_clean, 9, 15) THEN None
    ELSE Some([request EXCEPT !.mpesa_number = mpesa_clean])

\* CardPaymentMethodAddRequest with validate_card_data, on the day `today`
\* a mutant of CardPaymentMethodAddRequest: the expiry date is not compared
\* with today
CardPaymentMethodAddRequestAnyExpiry(request, today) ==
    LET card_clean == Strip(request.card_number, Whitespace \cup {"-"})
        cvc_clean == Strip(request.cvc, Whitespace)
    IN
    IF ~(/\ request.expiry_month >= 1 /\ request.expiry_month <= 12
         /\ request.expiry_year >= 2024 /\ request.expiry_year <= 2099
         /\ request.card_type \in {"visa", "mastercard"})
    THEN None
    ELSE IF ~DigitsOfLength(card_clean, 16, 16) THEN None
    ELSE IF request.card_type = "visa" /\ card_clean[1] # "4" THEN None
    ELSE IF request.card_type = "mastercard" /\ card_clean[1] # "5" THEN None
    ELSE IF ~DigitsOfLength(cvc_clean, 3, 4) THEN None
    ELSE Some([request EXCEPT !.card_number = card_clean, !.cvc = cvc_clean])

CardPaymentMethodAddRequest(request, today) ==
    LET card_clean == Strip(request.card_number, Whitespace \cup {"-"})
        cvc_clean == Strip(request.cvc, Whitespace)
    IN
    IF ~(/\ request.expiry_month >= 1 /\ request.expiry_month <= 12
         /\ request.expiry_year >= 2024 /\ request.expiry_year <= 2099
         /\ request.card_type \in {"visa", "mastercard"})
    THEN None
    ELSE IF ~DigitsOfLength(card_clean, 16, 16) THEN None
    ELSE IF request.card_type = "visa" /\ card_clean[1] # "4" THEN None
    ELSE IF request.card_type = "mastercard" /\ card_clean[1] # "5" THEN None
    ELSE IF ~DigitsOfLength(cvc_clean, 3, 4) THEN None
    ELSE IF \/ request.expiry_year < today.year
            \/ (request.expiry_year = today.year
                /\ request.expiry_month < today.month)
    THEN None
    ELSE Some([request EXCEPT !.card_number = card_clean, !.cvc = cvc_clean])

(***************************************************************************)
(* app/models.py PaymentMethod.  A None passed for is_default is left out  *)
(* of the INSERT, so the column default (False) is stored.                 *)
(***************************************************************************)
IsTrue(opt_bool) == opt_bool = Some(TRUE)

MpesaRow(id, host_id, request, t) ==
    [id |-> id, host_id |-> host_id, method_type |-> "mpesa",
     mpesa_number |-> Some(request.mpesa_number),
     card_number_hash |-> None, card_last_four |-> None, card_type |-> None,
     expiry_month |-> None, expiry_year |-> None, cvc_hash |-> None,
     is_default |-> IsTrue(request.is_default), created_at |-> t]

\* request.card_number[-4:]
LastFour(card_number) ==
    SubSeq(card_number,
           IF Len(card_number) > 4 THEN Len(card_number) - 3 ELSE 1,
           Len(card_number))

\* hash_card_number / hash_cvc
hash_card_number(card_number, salt) == get_password_hash(card_number, salt)

hash_cvc(cvc, salt) == get_password_hash(cvc, salt)

\* the digest a hashing call returned; the validated number and CVC are
\* shorter than the bcrypt limit, so each call has this one outcome
HashReturned(outcomes) == (CHOOSE h \in outcomes : ~h.raised).value[1]

CardRow(id, host_id, request, salt_number, salt_cvc, t) ==
    [id |-> id, host_id |-> host_id, method_type |-> request.card_type,
     mpesa_number |-> None,
     card_number_hash |->
         Some(HashReturned(hash_card_number(request.card_number, salt_number))),
     card_last_four |-> Some(LastFour(request.card_number)),
     card_type |-> Some(request.card_type),
     expiry_month |-> Some(request.expiry_month),
     expiry_year |-> Some(request.expiry_year),
     cvc_hash |-> Some(HashReturned(hash_cvc(request.cvc, salt_cvc))),
     is_default |-> IsTrue(request.is_default), created_at |-> t]

(***************************************************************************)
(* app/routers/payment_methods.py: the queries and the writes of a unit of *)
(* work, on the committed rows `rows`.                                     *)
(***************************************************************************)
\* a mutant of ExistingDefaults: no default is found, so none is cleared
ExistingDefaultsNone(rows, host_id, except_id) == {}

\* a mutant of ExistingDefaults: the query is not scoped to the host
ExistingDefaultsAnyHost(rows, host_id, except_id) ==
    {pm.id : pm \in {r \in rows : r.is_default /\ r.id # except_id}}

\* db.query(PaymentMethod).filter(host_id == ..., is_default == True
\* [, id != payment_method_id]).all(): the ids of the rows loaded
ExistingDefaults(rows, host_id, except_id) ==
    {pm.id : pm \in {r \in rows : /\ r.host_id = host_id
                                  /\ r.is_default
                                  /\ r.id # except_id}}

\* for pm in existing_defaults: pm.is_default = False, flushed as one
\* UPDATE ... WHERE id = pm.id per row loaded
ClearDefaults(rows, ids) ==
    {IF r.id \in ids THEN [r EXCEPT !.is_default = FALSE] ELSE r : r \in rows}

\* a mutant of OwnPaymentMethod: the query is not scoped to the host
OwnPaymentMethodAnyHost(rows, payment_method_id, host_id) ==
    LET found == {r \in rows : r.id = payment_method_id} IN
    IF found = {} THEN None ELSE Some(CHOOSE r \in found : TRUE)

\* db.query(PaymentMethod).filter(id == ..., host_id == ...).first()
OwnPaymentMethod(rows, payment_method_id, host_id) ==
    LET found == {r \in rows : r.id = payment_method_id
                               /\ r.host_id = host_id} IN
    IF found = {} THEN None ELSE Some(CHOOSE r \in found : TRUE)

\* a mutant of SetDefaultWrite: the target is marked, the others are kept
SetDefaultWriteKeepsOthers(rows, payment_method_id, was_default, loaded) ==
    {IF r.id = payment_method_id THEN [r EXCEPT !.is_default = TRUE] ELSE r :
         r \in rows}

\* set_default_payment_method's flush: the rows loaded as defaults are
\* cleared; payment_method.is_default = True is an UPDATE only when the
\* session loaded the row with is_default False (an unchanged attribute is
\* not written)
SetDefaultWrite(rows, payment_method_id, was_default, loaded) ==
    {IF r.id = payment_method_id /\ ~was_default
     THEN [r EXCEPT !.is_default = TRUE] ELSE r :
         r \in ClearDefaults(rows, loaded)}

\* a mutant of DeleteWrite: the newest remaining row of the host becomes
\* the default when the default is deleted
DeleteWritePromotes(rows, payment_method) ==
    LET rest == rows \ {payment_method}
        own == {r \in rest : r.host_id = payment_method.host_id}
    IN
    IF ~payment_method.is_default \/ own = {} THEN rest
    ELSE {IF r = (CHOOSE x \in own : \A y \in own : y.id <= x.id)
          THEN [r EXCEPT !.is_default = TRUE] ELSE r : r \in rest}

\* db.delete(payment_method); db.commit(): the one row is removed
DeleteWrite(rows, payment_method) == rows \ {payment_method}

PmFrame == UNCHANGED <<hosts, clients, cars, now, issued, pc, sess>>

\* a mutant of PaymentMethodResponse: every column of the row is returned
PaymentMethodColumns(payment_method) == payment_method

\* PaymentMethodResponse (from_attributes): the fields the schema declares
PaymentMethodResponse(payment_method) ==
    [f \in {"id", "host_id", "method_type", "mpesa_number", "card_last_four",
            "card_type", "expiry_month", "expiry_year", "is_default",
            "created_at"} |-> payment_method[f]]

\* the row with this id
RowById(rows, id) == CHOOSE r \in rows : r.id = id

add_mpesa_payment_method(hdr, raw_request) ==
    LET auth == get_current_host(hdr, now, hosts)
        request == MpesaPaymentMethodAddRequest(raw_request)
        existing_defaults ==
            IF IsTrue(request[1].is_default)
            THEN ExistingDefaults(pms, auth.id, 0) ELSE {}
    IN
    /\ IF ~auth.ok
       THEN /\ last' = Rejected("get_current_host", hdr, auth)
            /\ UNCHANGED <<pms, pm_seq>>
       ELSE IF request = None
       THEN /\ last' = Sending(Response("add_mpesa_payment_method", hdr,
                                   "422", "validation", auth.id, 0, None),
                               raw_request)
            /\ UNCHANGED <<pms, pm_seq>>
       ELSE /\ pm_seq < MaxPms
            /\ pm_seq' = pm_seq + 1
            /\ pms' = ClearDefaults(pms, existing_defaults)
                          \cup {MpesaRow(pm_seq + 1, auth.id, request[1], now)}
            /\ last' = Sending(Returning(Clearing(
                   Response("add_mpesa_payment_method", hdr, "201", "",
                            auth.id, pm_seq + 1, None), existing_defaults),
                   PaymentMethodResponse(
                       MpesaRow(pm_seq + 1, auth.id, request[1], now))),
                   raw_request)
    /\ PmFrame

add_card_payment_method(hdr, raw_request, today, salt_number, salt_cvc) ==
    LET auth == get_current_host(hdr, now, hosts)
        request == CardPaymentMethodAddRequest(raw_request, today)
        existing_defaults ==
            IF IsTrue(request[1].is_default)
            THEN ExistingDefaults(pms, auth.id, 0) ELSE {}
    IN
    /\ IF ~auth.ok
       THEN /\ last' = Rejected("get_current_host", hdr, auth)
            /\ UNCHANGED <<pms, pm_seq>>
       ELSE IF request = None
       THEN /\ last' = Sending(Response("add_card_payment_method", hdr,
                                   "422", "validation", auth.id, 0, None),
                               raw_request)
            /\ UNCHANGED <<pms, pm_seq>>
       ELSE /\ pm_seq < MaxPms
            /\ pm_seq' = pm_seq + 1
            /\ pms' = ClearDefaults(pms, existing_defaults)
                          \cup {CardRow(pm_seq + 1, auth.id, request[1],
                                        salt_number, salt_cvc, now)}
            /\ last' = Sending(Returning(Clearing(
                   Response("add_card_payment_method", hdr, "201", "",
                            auth.id, pm_seq + 1, None), existing_defaults),
                   PaymentMethodResponse(
                       CardRow(pm_seq + 1, auth.id, request[1],
                               salt_number, salt_cvc, now))),
                   raw_request)
    /\ PmFrame

\* a mutant of SortsBefore: is_default is no sort key
SortsBeforeByCreated(a, b) == a.created_at > b.created_at

\* a sort key precedes another under is_default.desc(), created_at.desc()
SortsBefore(a, b) ==
    \/ a.is_default /\ ~b.is_default
    \/ a.is_default = b.is_default /\ a.created_at > b.created_at

\* the results .filter(host_id == ...).order_by(...).all() may return: the
\* host's rows, each once, sorted by the two keys; the query names no
\* further key, so rows equal in both come in the order the database picks
OrderedByDefaultThenCreated(rows, host_id) ==
    LET own == {r \in rows : r.host_id = host_id}
        n == Cardinality(own)
    IN {q \in [1..n -> own] :
           /\ \A i, j \in 1..n : i # j => q[i] # q[j]
           /\ \A i, j \in 1..n : i < j => ~SortsBefore(q[j], q[i])}

get_payment_methods(hdr) ==
    LET auth == get_current_host(hdr, now, hosts) IN
    /\ IF ~auth.ok THEN last' = Rejected("get_current_host", hdr, auth)
       ELSE \E payment_methods \in OrderedByDefaultThenCreated(pms, auth.id) :
              last' = Returning(
                  Response("get_payment_methods", hdr, "200", "",
                           auth.id, 0, None),
                  [i \in 1..Len(payment_methods) |->
                      PaymentMethodResponse(payment_methods[i])])
    /\ UNCHANGED <<pms, pm_seq>>
    /\ PmFrame

get_payment_method(hdr, payment_method_id) ==
    LET auth == get_current_host(hdr, now, hosts) IN
    /\ IF ~auth.ok THEN last' = Rejected("get_current_host", hdr, auth)
       ELSE IF OwnPaymentMethod(pms, payment_method_id, auth.id) = None
       THEN last' = Response("get_payment_method", hdr, "404",
                             "Payment method not found", auth.id,
                             payment_method_id, None)
       ELSE last' = Returning(
                Response("get_payment_method", hdr, "200", "", auth.id,
                         payment_method_id, None),
                PaymentMethodResponse(
                    OwnPaymentMethod(pms, payment_method_id, auth.id)[1]))
    /\ UNCHANGED <<pms, pm_seq>>
    /\ PmFrame

delete_payment_method(hdr, payment_method_id) ==
    LET auth == get_current_host(hdr, now, hosts)
        payment_method == OwnPaymentMethod(pms, payment_method_id, auth.id)
    IN
    /\ IF ~auth.ok
       THEN /\ last' = Rejected("get_current_host", hdr, auth)
            /\ UNCHANGED pms
       ELSE IF payment_method = None
       THEN /\ last' = Response("delete_payment_method", hdr, "404",
                                "Payment method not found", auth.id,
                                payment_method_id, None)
            /\ UNCHANGED pms
       ELSE /\ pms' = DeleteWrite(pms, payment_method[1])
            /\ last' = Deleting(
                   Response("delete_payment_method", hdr, "204", "",
                            auth.id, payment_method_id, None),
                   payment_method[1])
    /\ UNCHANGED pm_seq
    /\ PmFrame

set_default_payment_method(hdr, payment_method_id) ==
    LET auth == get_current_host(hdr, now, hosts)
        payment_method == OwnPaymentMethod(pms, payment_method_id, auth.id)
        existing_defaults == ExistingDefaults(pms, auth.id, payment_method_id)
    IN
    /\ IF ~auth.ok
       THEN /\ last' = Rejected("get_current_host", hdr, auth)
            /\ UNCHANGED pms
       ELSE IF payment_method = None
       THEN /\ last' = Response("set_default_payment_method", hdr, "404",
                                "Payment method not found", auth.id,
                                payment_method_id, None)
            /\ UNCHANGED pms
       ELSE /\ pms' = SetDefaultWrite(pms, payment_method_id,
                                      payment_method[1].is_default,
                                      existing_defaults)
            /\ last' = Returning(Clearing(
                   Response("set_default_payment_method", hdr, "200", "",
                            auth.id, payment_method_id, None),
                   existing_defaults),
                   PaymentMethodResponse(RowById(pms', payment_method_id)))
    /\ UNCHANGED pm_seq
    /\ PmFrame

(***************************************************************************)
(* The same handlers served by concurrent workers, each with its own       *)
(* session: a step is one store read (a query sees the rows committed so   *)
(* far) or the commit (the flush of the session's changes and the commit   *)
(* are one transaction).  Nothing in the handlers locks a row or orders    *)
(* two units of work.                                                      *)
(***************************************************************************)
Session(op, hdr, host, target, promote, row) ==
    [op |-> op, hdr |-> hdr, host |-> host, target |-> target,
     promote |-> promote, row |-> row,
     target_was_default |-> FALSE, loaded |-> {}]

AddsInFlight ==
    Cardinality({w \in Workers : pc[w] # "idle" /\ sess[w].row # None})

ConcFrame == UNCHANGED <<hosts, clients, cars, now, issued>>

\* add_mpesa_payment_method up to its first query
begin_add_mpesa(w, hdr, raw_request) ==
    LET auth == get_current_host(hdr, now, hosts)
        request == MpesaPaymentMethodAddRequest(raw_request)
    IN
    /\ pc[w] = "idle"
    /\ IF ~auth.ok
       THEN /\ last' = Rejected("get_current_host", hdr, auth)
            /\ UNCHANGED <<pc, sess>>
       ELSE IF request = None
       THEN /\ last' = Response("add_mpesa_payment_method", hdr, "422",
                                "validation", auth.id, 0, None)
            /\ UNCHANGED <<pc, sess>>
       ELSE /\ pm_seq + AddsInFlight < MaxPms
            /\ sess' = [sess EXCEPT ![w] =
                   Session("add_mpesa_payment_method", hdr, auth.id, 0,
                           IsTrue(request[1].is_default),
                           Some(MpesaRow(0, auth.id, request[1], now)))]
            /\ pc' = [pc EXCEPT ![w] = IF IsTrue(request[1].is_default)
                                       THEN "query_defaults" ELSE "commit"]
            /\ UNCHANGED last
    /\ UNCHANGED <<pms, pm_seq>>
    /\ ConcFrame

\* add_card_payment_method up to its first query
begin_add_card(w, hdr, raw_request, today, salt_number, salt_cvc) ==
    LET auth == get_current_host(hdr, now, hosts)
        request == CardPaymentMethodAddRequest(raw_request, today)
    IN
    /\ pc[w] = "idle"
    /\ IF ~auth.ok
       THEN /\ last' = Rejected("get_current_host", hdr, auth)
            /\ UNCHANGED <<pc, sess>>
       ELSE IF request = None
       THEN /\ last' = Response("add_card_payment_method", hdr, "422",
                                "validation", auth.id, 0, None)
            /\ UNCHANGED <<pc, sess>>
       ELSE /\ pm_seq + AddsInFlight < MaxPms
            /\ sess' = [sess EXCEPT ![w] =
                   Session("add_card_payment_method", hdr, auth.id, 0,
                           IsTrue(request[1].is_default),
                           Some(CardRow(0, auth.id, request[1],
                                        salt_number, salt_cvc, now)))]
            /\ pc' = [pc EXCEPT ![w] = IF IsTrue(request[1].is_default)
                                       THEN "query_defaults" ELSE "commit"]
            /\ UNCHANGED last
    /\ UNCHANGED <<pms, pm_seq>>
    /\ ConcFrame

\* set_default_payment_method up to its first query
begin_set_default(w, hdr, payment_method_id) ==
    LET auth == get_current_host(hdr, now, hosts) IN
    /\ pc[w] = "idle"
    /\ IF ~auth.ok
       THEN /\ last' = Rejected("get_current_host", hdr, auth)
            /\ UNCHANGED <<pc, sess>>
       ELSE /\ sess' = [sess EXCEPT ![w] =
                   Session("set_default_payment_method", hdr, auth.id,
                           payment_method_id, TRUE, None)]
            /\ pc' = [pc EXCEPT ![w] = "query_target"]
            /\ UNCHANGED last
    /\ UNCHANGED <<pms, pm_seq>>
    /\ ConcFrame

\* set_default_payment_method: the query for the row to promote
query_target(w) ==
    LET payment_method ==
            OwnPaymentMethod(pms, sess[w].target, sess[w].host) IN
    /\ pc[w] = "query_target"
    /\ IF payment_method = None
       THEN /\ last' = Response(sess[w].op, sess[w].hdr, "404",
                                "Payment method not found", sess[w].host,
                                sess[w].target, None)
            /\ pc' = [pc EXCEPT ![w] = "idle"]
            /\ sess' = [sess EXCEPT ![w] = NoSession]
       ELSE /\ sess' = [sess EXCEPT ![w].target_was_default =
                                        payment_method[1].is_default]
            /\ pc' = [pc EXCEPT ![w] = "query_defaults"]
            /\ UNCHANGED last
    /\ UNCHANGED <<pms, pm_seq>>
    /\ ConcFrame

\* the query for the host's existing defaults
query_defaults(w) ==
    /\ pc[w] = "query_defaults"
    /\ sess' = [sess EXCEPT ![w].loaded =
                   ExistingDefaults(pms, sess[w].host, sess[w].target)]
    /\ pc' = [pc EXCEPT ![w] = "commit"]
    /\ UNCHANGED <<pms, pm_seq, last>>
    /\ ConcFrame

\* db.commit(): the session's changes become visible together
commit(w) ==
    /\ pc[w] = "commit"
    /\ IF sess[w].row # None
       THEN /\ pm_seq' = pm_seq + 1
            /\ pms' = ClearDefaults(pms, sess[w].loaded)
                          \cup {[sess[w].row[1] EXCEPT !.id = pm_seq + 1]}
            /\ last' = Clearing(
                   Response(sess[w].op, sess[w].hdr, "201", "",
                            sess[w].host, pm_seq + 1, None), sess[w].loaded)
       ELSE /\ pms' = SetDefaultWrite(pms, sess[w].target,
                                      sess[w].target_was_default,
                                      sess[w].loaded)
            /\ pm_seq' = pm_seq
            /\ last' = Clearing(
                   Response(sess[w].op, sess[w].hdr, "200", "",
                            sess[w].host, sess[w].target, None),
                   sess[w].loaded)
    /\ pc' = [pc EXCEPT ![w] = "idle"]
    /\ sess' = [sess EXCEPT ![w] = NoSession]
    /\ ConcFrame

(***************************************************************************)
(* register_host and register_client served by concurrent workers: the     *)
(* lookup by email is one store read, db.add/db.commit the insert.  The    *)
(* email columns are declared unique=True, so the insert of an address     *)
(* that is already stored fails in the database with an IntegrityError,    *)
(* which no handler catches: the request is answered 500.                  *)
(***************************************************************************)
RegistrationFrame == UNCHANGED <<cars, pms, pm_seq, now, issued>>

\* Column(String(255), unique=True) of the email columns
UniqueViolation(table, email) == \E i \in 1..Len(table) : table[i].email = email

\* a registration up to db.add: validation, the lookup, the hash
begin_register(w, op, table, request, salt) ==
    /\ pc[w] = "idle"
    /\ IF ~RegisterRequestValid(request)
       THEN /\ last' = Sending(Response(op, NoHeader, "422", "validation",
                                        0, 0, None), request)
            /\ UNCHANGED <<pc, sess>>
       ELSE IF get_by_email(table, EmailStr(request.email)[1]) # None
       THEN /\ last' = Sending(Response(op, NoHeader, "400",
                                   "Email already registered", 0, 0, None),
                               request)
            /\ UNCHANGED <<pc, sess>>
       ELSE \E hashed_password \in get_password_hash(request.password, salt) :
            IF hashed_password.raised
            THEN /\ last' = Sending(Response(op, NoHeader, "500",
                                        "Internal Server Error", 0, 0, None),
                                    request)
                 /\ UNCHANGED <<pc, sess>>
            ELSE /\ sess' = [sess EXCEPT ![w] =
                        Session(op, NoHeader, 0, 0, FALSE,
                            Some(IF op = "register_host"
                                 THEN Host(0, request.full_name,
                                           EmailStr(request.email)[1],
                                           hashed_password.value[1])
                                 ELSE Client(0, request.full_name,
                                             EmailStr(request.email)[1],
                                             hashed_password.value[1])))]
                 /\ pc' = [pc EXCEPT ![w] = "insert"]
                 /\ UNCHANGED last
    /\ UNCHANGED <<hosts, clients>>
    /\ RegistrationFrame

begin_register_host(w, request, salt) ==
    begin_register(w, "register_host", hosts, request, salt)

begin_register_client(w, request, salt) ==
    begin_register(w, "register_client", clients, request, salt)

\* db.add(row); db.commit(); db.refresh(row)
commit_register(w) ==
    LET row == sess[w].row[1]
        table == IF sess[w].op = "register_host" THEN hosts ELSE clients
        inserted == Append(table, [row EXCEPT !.id = Len(table) + 1])
    IN
    /\ pc[w] = "insert"
    /\ IF UniqueViolation(table, row.email)
       THEN /\ last' = Response(sess[w].op, NoHeader, "500",
                                "Internal Server Error", 0, 0, None)
            /\ UNCHANGED <<hosts, clients>>
       ELSE /\ last' = Response(sess[w].op, NoHeader, "201", "",
                                0, Len(table) + 1, None)
            /\ IF sess[w].op = "register_host"
               THEN hosts' = inserted /\ UNCHANGED clients
               ELSE clients' = inserted /\ UNCHANGED hosts
    /\ pc' = [pc EXCEPT ![w] = "idle"]
    /\ sess' = [sess EXCEPT ![w] = NoSession]
    /\ RegistrationFrame

(***************************************************************************)
(* The requests the specifications submit.                                 *)
(***************************************************************************)
\* the token a login at time 0 returns for principal `id`
LoginToken(id, role_name) ==
    create_access_token([sub |-> str(id), role |-> role_name],
        Some(timedelta_minutes(ACCESS_TOKEN_EXPIRE_MINUTES)), 0)

\* tokens no login returned at a time the model covers: a string that is no
\* JWT, a JWT signed with another key, a token that expired before time 0,
\* and correctly signed JWTs with a missing role, a missing sub, a sub that
\* is no integer, or the id of no row
ForgedTokens ==
    {GarbageToken,
     Jwt(Some("1"), Some("host"), Some(MaxTime), "another-key"),
     Jwt(Some("1"), Some("host"), Some(-1), SECRET_KEY),
     Jwt(Some("1"), None, Some(MaxTime), SECRET_KEY),
     Jwt(None, Some("host"), Some(MaxTime), SECRET_KEY),
     Jwt(Some("x"), Some("host"), Some(MaxTime), SECRET_KEY),
     Jwt(Some("3"), Some("host"), Some(MaxTime), SECRET_KEY),
     Jwt(Some("3"), Some("client"), Some(MaxTime), SECRET_KEY)}

BadHeaders == {NoHeader, BasicHeader, BearerEmpty}

\* the headers of a host, of a client with the same id, and every header
\* that carries no login token
GuardHeaders ==
    BadHeaders \cup {Bearer(t) : t \in ForgedTokens}
        \cup {Bearer(LoginToken(1, "host")), Bearer(LoginToken(1, "client"))}

\* a header of each kind: none, a scheme that is not Bearer, a token signed
\* with another key, a client's token, a host's token
ProbeHeaders ==
    {NoHeader, BasicHeader,
     Bearer(Jwt(Some("1"), Some("host"), Some(MaxTime), "another-key")),
     Bearer(LoginToken(1, "client")), Bearer(LoginToken(1, "host"))}

\* the headers of callers of the public reads: none, a string that is no
\* token, a client's token, and the tokens of the two hosts
ReadHeaders ==
    {NoHeader, Bearer(GarbageToken), Bearer(LoginToken(1, "client")),
     Bearer(LoginToken(1, "host")), Bearer(LoginToken(2, "host"))}

\* the headers of the two hosts and of an anonymous caller
CallerHeaders ==
    {NoHeader, Bearer(LoginToken(1, "host")), Bearer(LoginToken(2, "host"))}

\* the headers of the two hosts
OwnerHeaders == {Bearer(LoginToken(1, "host")), Bearer(LoginToken(2, "host"))}

\* the header of the one host, and of an anonymous caller
HostHeaders == {NoHeader, Bearer(LoginToken(1, "host"))}

\* the emails hosts register with, in the order they register
HostEmails == <<AnnEmail, BobEmail>>

RegisterRequests(emails) ==
    {RegisterRequest("Ann", e, p, c) :
        e \in emails, p \in {Password1}, c \in {Password1, Password2}}

LoginRequests ==
    {LoginRequest(e, p) : e \in {AnnEmail, BobEmail},
                          p \in {Password1, Password2}}

ProfileUpdates ==
    {ProfileUpdate(None, None, None), ProfileUpdate(Some("bio"), None, None)}

BasicsRequests ==
    {[name |-> "Axio", model |-> "X", body_type |-> "SUV", year |-> y,
      description |-> "d"] : y \in {2020, 1800}}

SpecsRequests ==
    {[seats |-> n, fuel_type |-> "Diesel", transmission |-> "Manual",
      color |-> "red", mileage |-> 10,
      features |-> <<<<"g", "p", "s">>, <<"a", "c">>>>] :
        n \in {4, 0}}

PricingRequests ==
    {[daily_rate |-> 50, weekly_rate |-> 300, monthly_rate |-> 1000,
      min_rental_days |-> 1, max_rental_days |-> m,
      min_age_requirement |-> 21, rules |-> "r"] : m \in {Some(5), Some(-1)}}

\* feature strings: empty, plain, and ones made of the characters JSON
\* quotes, escapes or separates with
FeatureStrings ==
    {<<>>, <<"a">>, <<"\"">>, <<"\\">>, <<",", " ">>, <<"\\", "\"">>,
     <<"]">>}

\* feature lists of 0, 1, 2, 12 and 13 strings
FeatureLists ==
    {<<>>} \cup {<<x>> : x \in FeatureStrings}
        \cup {<<x, y>> : x \in FeatureStrings, y \in FeatureStrings}
        \cup {[i \in 1..12 |-> <<"a">>], [i \in 1..13 |-> <<"a">>]}

FeatureRequests ==
    {[seats |-> 4, fuel_type |-> "Diesel", transmission |-> "Manual",
      color |-> "red", mileage |-> 10, features |-> f] : f \in FeatureLists}

\* pricing requests that differ in max_rental_days: absent, 0, 1, 5 and
\* negative values
MaxRentalDaysRequests ==
    {[daily_rate |-> 50, weekly_rate |-> 300, monthly_rate |-> 1000,
      min_rental_days |-> 1, max_rental_days |-> m,
      min_age_requirement |-> 21, rules |-> "r"] :
        m \in {None, Some(0), Some(1), Some(5), Some(-1), Some(-7)}}

NamedLocation ==
    [location_name |-> Some("Downtown Parking"), latitude |-> None,
     longitude |-> None]

LocationRequests ==
    {NamedLocation,
     [location_name |-> None, latitude |-> Some(-1), longitude |-> Some(36)],
     [location_name |-> None, latitude |-> Some(-1), longitude |-> None],
     [location_name |-> Some(""), latitude |-> Some(-1),
      longitude |-> Some(36)],
     [location_name |-> Some("Downtown Parking"), latitude |-> Some(-1),
      longitude |-> Some(36)]}

MpesaNumber == <<"2", "5", "4", "7", "1", "2", "3", "4", "5", "6", "7", "8">>
VisaNumber == <<"4", "1", "1", "1", " ", "1", "1", "1", "1", " ",
                "1", "1", "1", "1", " ", "1", "1", "1", "1">>

MpesaRequest(is_default) ==
    [mpesa_number |-> MpesaNumber, is_default |-> is_default]

MpesaRequests ==
    {MpesaRequest(d) : d \in {Some(TRUE), Some(FALSE), None}}
        \cup {[mpesa_number |-> <<"1", "2">>, is_default |-> Some(TRUE)]}

CardRequest(card_type, is_default) ==
    [card_number |-> VisaNumber, cvc |-> <<"1", "2", "3">>,
     expiry_month |-> 6, expiry_year |-> 2030, card_type |-> card_type,
     is_default |-> is_default]

CardRequests ==
    {CardRequest("visa", Some(TRUE)), CardRequest("visa", Some(FALSE)),
     CardRequest("mastercard", Some(TRUE))}

Todays == {[year |-> 2026, month |-> 11]}

(***************************************************************************)
(* SpecCards: one host adds cards whose number, brand, CVC and expiry are  *)
(* each valid or invalid in turn, beside an M-Pesa default, and reads them *)
(* back.                                                                   *)
(***************************************************************************)
Ones(n) == [i \in 1..n |-> "1"]

VisaDashed ==
    <<"4", "1", "1", "1", "-", "1", "1", "1", "1", "-",
      "1", "1", "1", "1", "-", "1", "1", "1", "1">>
VisaTabbed == <<"4", "\t">> \o Ones(15)
MastercardNumber == <<"5">> \o Ones(11) \o <<"2", "3", "4", "5">>

CardBody(card_number, cvc, expiry_month, expiry_year, card_type, is_default) ==
    [card_number |-> card_number, cvc |-> cvc, expiry_month |-> expiry_month,
     expiry_year |-> expiry_year, card_type |-> card_type,
     is_default |-> is_default]

\* numbers with spaces, dashes and a tab, of 15 and 17 digits and with a
\* letter; each brand with each first digit; CVCs of 2 to 5 digits, with a
\* letter and with spaces; expiry dates around the current month
CardBodies ==
    {CardBody(n, <<"1", "2", "3">>, 6, 2030, "visa", Some(TRUE)) :
        n \in {VisaNumber, VisaDashed, VisaTabbed, <<"4">> \o Ones(14),
               <<"4">> \o Ones(16), <<"4", "x">> \o Ones(14)}}
    \cup {CardBody(n, <<"1", "2", "3">>, 6, 2030, t, Some(TRUE)) :
            n \in {VisaNumber, MastercardNumber}, t \in {"visa", "mastercard"}}
    \cup {CardBody(VisaNumber, c, 6, 2030, "visa", Some(TRUE)) :
            c \in {<<"1", "2">>, <<"1", "2", "3", "4">>,
                   <<"1", "2", "3", "4", "5">>, <<"1", "2", "a">>,
                   <<"1", " ", "2", " ", "3">>}}
    \cup {CardBody(VisaNumber, <<"1", "2", "3">>, d[1], d[2], "visa",
                   Some(FALSE)) :
            d \in {<<10, 2026>>, <<11, 2026>>, <<12, 2025>>, <<1, 2027>>,
                   <<1, 2020>>}}

NextCards ==
    \/ \E r \in RegisterRequests({AnnEmail}) : register_host(r, 1)
    \/ \E h \in HostHeaders :
          add_mpesa_payment_method(h, MpesaRequest(Some(TRUE)))
    \/ \E h \in HostHeaders, r \in CardBodies, d \in Todays :
          add_card_payment_method(h, r, d, 1, 2)
    \/ \E h \in HostHeaders : get_payment_methods(h)
    \/ \E h \in HostHeaders, i \in 1..(MaxPms + 1) :
          get_payment_method(h, i)
    \/ \E h \in HostHeaders, i \in 1..(MaxPms + 1) :
          set_default_payment_method(h, i)

SpecCards == Init /\ [][NextCards]_vars

(***************************************************************************)
(* SpecList: two hosts add M-Pesa numbers at different times, move the     *)
(* default and list their payment methods.                                 *)
(***************************************************************************)
NextList ==
    \/ /\ Len(hosts) < Len(HostEmails)
       /\ register_host(RegisterRequest("Ann", HostEmails[Len(hosts) + 1],
                                        Password1, Password1), 1)
    \/ \E h \in OwnerHeaders, d \in {Some(TRUE), Some(FALSE)} :
          add_mpesa_payment_method(h, MpesaRequest(d))
    \/ \E h \in OwnerHeaders, i \in 1..MaxPms :
          set_default_payment_method(h, i)
    \/ \E h \in OwnerHeaders : get_payment_methods(h)
    \/ \E d \in TickSteps : Tick(d)

SpecList == Init /\ [][NextList]_vars

(***************************************************************************)
(* SpecAuth: registration, login, the clock, and the guarded endpoints of  *)
(* the two auth routers called with the tokens the logins returned.        *)
(***************************************************************************)
IssuedHeaders == {NoHeader} \cup {Bearer(t) : t \in issued}

NextAuth ==
    \/ \E r \in RegisterRequests({AnnEmail}) : register_host(r, 1)
    \/ \E r \in RegisterRequests({AnnEmail}) : register_client(r, 1)
    \/ \E r \in LoginRequests : login_host(r)
    \/ \E r \in LoginRequests : login_client(r)
    \/ \E h \in IssuedHeaders : logout_host(h)
    \/ \E h \in IssuedHeaders : logout_client(h)
    \/ \E h \in IssuedHeaders : get_current_host_info(h)
    \/ \E h \in IssuedHeaders : get_current_client_info(h)
    \/ \E d \in TickSteps : Tick(d)

SpecAuth == Init /\ [][NextAuth]_vars

(***************************************************************************)
(* A call of the token service: the arguments are recorded as the request  *)
(* and the token returned as the token of the response.                    *)
(***************************************************************************)
call_create_access_token(data, expires_delta) ==
    /\ last' = Sending(
           Response("create_access_token", NoHeader, "", "", 0, 0,
                    Some(create_access_token(data, expires_delta, now))),
           [data |-> data, expires_delta |-> expires_delta])
    /\ UNCHANGED <<hosts, clients, issued>>
    /\ AuthFrame

(***************************************************************************)
(* SpecToken: tokens are issued by the logins and by calls of              *)
(* create_access_token with no expires_delta and with durations of zero,   *)
(* one second, 15 and 30 minutes and a negative one, as the clock advances.*)
(***************************************************************************)
ExpiresDeltas == {None, Some(0), Some(1), Some(900), Some(1800), Some(-60)}

NextToken ==
    \/ \E r \in RegisterRequests({AnnEmail}) : register_host(r, 1)
    \/ \E r \in RegisterRequests({AnnEmail}) : register_client(r, 1)
    \/ \E r \in LoginRequests : login_host(r)
    \/ \E r \in LoginRequests : login_client(r)
    \/ \E id \in 1..2, role_name \in {"host", "client"}, e \in ExpiresDeltas :
          call_create_access_token([sub |-> str(id), role |-> role_name], e)
    \/ \E d \in TickSteps : Tick(d)

SpecToken == Init /\ [][NextToken]_vars

(***************************************************************************)
(* SpecLogin: hosts and clients register and log in with a registered      *)
(* address (also written with an upper-case domain), with an address that  *)
(* is registered for the other account type only, for none, or is no       *)
(* address, and with the registered password, another one, and one longer  *)
(* than bcrypt reads.                                                      *)
(***************************************************************************)
LoginBodies ==
    {LoginRequest(e, p) :
        e \in {AnnEmail, AnnEmailUpperDomain, BobEmail, NoAtEmail},
        p \in {Password1, Password2, LongPassword("b")}}

NextLogin ==
    \/ \E r \in RegisterRequests({AnnEmail, BobEmail}) : register_host(r, 1)
    \/ \E r \in RegisterRequests({AnnEmail}) : register_client(r, 2)
    \/ \E r \in LoginBodies : login_host(r)
    \/ \E r \in LoginBodies : login_client(r)
    \/ \E d \in TickSteps : Tick(d)

SpecLogin == Init /\ [][NextLogin]_vars

(***************************************************************************)
(* SpecGuard: every guarded endpoint, called with every kind of header.    *)
(***************************************************************************)
NextGuard ==
    \/ \E r \in RegisterRequests({AnnEmail}) : register_host(r, 1)
    \/ \E r \in RegisterRequests({AnnEmail}) : register_client(r, 1)
    \/ \E h \in GuardHeaders : logout_host(h)
    \/ \E h \in GuardHeaders : logout_client(h)
    \/ \E h \in GuardHeaders : get_current_host_info(h)
    \/ \E h \in GuardHeaders : get_current_client_info(h)
    \/ \E h \in GuardHeaders :
          update_host_profile(h, ProfileUpdate(Some("bio"), None, None))
    \/ /\ Len(cars) < MaxCars
       /\ \E h \in ProbeHeaders, r \in BasicsRequests :
             create_car_basics(h, r)
    \/ \E h \in ProbeHeaders, r \in SpecsRequests : update_car_specs(h, 1, r)
    \/ \E h \in ProbeHeaders, r \in PricingRequests :
          update_car_pricing(h, 1, r)
    \/ \E h \in ProbeHeaders : update_car_location(h, 1, NamedLocation)
    \/ \E h \in ProbeHeaders : list_my_cars(h)
    \/ /\ pm_seq < MaxGuardPms
       /\ \E h \in ProbeHeaders :
             add_mpesa_payment_method(h, MpesaRequest(Some(TRUE)))
    \/ /\ pm_seq < MaxGuardPms
       /\ \E h \in ProbeHeaders, d \in Todays :
             add_card_payment_method(h, CardRequest("visa", Some(TRUE)),
                                     d, 1, 2)
    \/ \E h \in ProbeHeaders : get_payment_methods(h)
    \/ \E h \in ProbeHeaders : get_payment_method(h, 1)
    \/ \E h \in ProbeHeaders : delete_payment_method(h, 1)
    \/ \E h \in ProbeHeaders : set_default_payment_method(h, 1)

SpecGuard == Init /\ [][NextGuard]_vars

(***************************************************************************)
(* SpecReason: the guards are presented with tokens that fail each check   *)
(* of jwt.decode (no segments, a first segment that is no JSON, another    *)
(* key, an exp that is no number, an exp in the past), with tokens that    *)
(* lack a claim, and with the tokens the logins returned, as the clock     *)
(* advances past their exp.                                                *)
(***************************************************************************)
UndecodableTokens ==
    {HeaderlessToken,
     JwtTextExp(Some("1"), Some("host"), SECRET_KEY),
     JwtTextExp(Some("1"), Some("host"), "another-key")}

ReasonHeaders ==
    {Bearer(t) : t \in ForgedTokens \cup UndecodableTokens \cup issued}

NextReason ==
    \/ \E r \in RegisterRequests({AnnEmail}) : register_host(r, 1)
    \/ \E r \in RegisterRequests({AnnEmail}) : register_client(r, 1)
    \/ \E r \in LoginRequests : login_host(r)
    \/ \E r \in LoginRequests : login_client(r)
    \/ \E h \in ReasonHeaders : get_current_host_info(h)
    \/ \E h \in ReasonHeaders : get_current_client_info(h)
    \/ \E d \in TickSteps : Tick(d)

SpecReason == Init /\ [][NextReason]_vars

(***************************************************************************)
(* SpecCars: hosts register and drive cars through the four stages.        *)
(***************************************************************************)
NextCars ==
    \/ /\ Len(hosts) < Len(HostEmails)
       /\ \E r \in RegisterRequests({HostEmails[Len(hosts) + 1]}) :
             register_host(r, 1)
    \/ /\ Len(cars) < MaxCars
       /\ \E h \in OwnerHeaders, r \in BasicsRequests :
             create_car_basics(h, r)
    \/ \E h \in OwnerHeaders, c \in 1..(Len(cars) + 1), r \in SpecsRequests :
          CarTechnicalSpecsValid(r) /\ update_car_specs(h, c, r)
    \/ \E h \in OwnerHeaders, c \in 1..(Len(cars) + 1), r \in PricingRequests :
          CarPricingRulesRequest(r) # None /\ update_car_pricing(h, c, r)
    \/ \E h \in OwnerHeaders, c \in 1..(Len(cars) + 1), r \in LocationRequests :
          update_car_location(h, c, r)
    \/ \E c \in 1..(Len(cars) + 1) : get_car(NoHeader, c)
    \/ list_cars(NoHeader, 0, 100)
    \/ \E h \in OwnerHeaders : list_my_cars(h)

SpecCars == Init /\ [][NextCars]_vars

(***************************************************************************)
(* SpecBasics: hosts register, create cars and locate them.                *)
(***************************************************************************)
NextBasics ==
    \/ \E r \in RegisterRequests(ValidEmails) : register_host(r, 1)
    \/ /\ Len(cars) < MaxBasicsCars
       /\ \E h \in CallerHeaders, r \in BasicsRequests :
             create_car_basics(h, r)
    \/ \E h \in CallerHeaders, c \in 1..MaxBasicsCars :
          update_car_location(h, c, NamedLocation)
    \/ \E c \in 1..MaxBasicsCars : get_car(NoHeader, c)

SpecBasics == Init /\ [][NextBasics]_vars

(***************************************************************************)
(* SpecPricing: hosts register, create cars and set their pricing with     *)
(* every kind of max_rental_days, and anyone reads the cars.               *)
(***************************************************************************)
NextPricing ==
    \/ \E r \in RegisterRequests(ValidEmails) : register_host(r, 1)
    \/ /\ Len(cars) < MaxCars
       /\ \E h \in CallerHeaders, r \in BasicsRequests :
             create_car_basics(h, r)
    \/ \E h \in CallerHeaders, c \in 1..MaxCars,
          r \in MaxRentalDaysRequests : update_car_pricing(h, c, r)
    \/ \E c \in 1..MaxCars : get_car(NoHeader, c)

SpecPricing == Init /\ [][NextPricing]_vars

(***************************************************************************)
(* SpecFeatures: a host creates cars and sets their technical specs with   *)
(* feature lists of every kind, and anyone reads the cars.                 *)
(***************************************************************************)
NextFeatures ==
    \/ \E r \in RegisterRequests({AnnEmail}) : register_host(r, 1)
    \/ /\ Len(cars) < MaxCars
       /\ \E h \in HostHeaders, r \in BasicsRequests :
             create_car_basics(h, r)
    \/ \E h \in HostHeaders, c \in 1..MaxCars, r \in FeatureRequests :
          update_car_specs(h, c, r)
    \/ \E c \in 1..MaxCars : get_car(NoHeader, c)

SpecFeatures == Init /\ [][NextFeatures]_vars

(***************************************************************************)
(* SpecReads: hosts create and locate cars; callers of every kind read     *)
(* them.                                                                   *)
(***************************************************************************)
NextReads ==
    \/ \E r \in RegisterRequests(ValidEmails) : register_host(r, 1)
    \/ /\ Len(cars) < MaxBasicsCars
       /\ \E h \in CallerHeaders, r \in BasicsRequests :
             CarBasicsValid(r) /\ create_car_basics(h, r)
    \/ \E h \in CallerHeaders, c \in 1..MaxBasicsCars :
          update_car_location(h, c, NamedLocation)
    \/ \E h \in ReadHeaders, c \in 1..(MaxBasicsCars + 1) : get_car(h, c)
    \/ \E h \in ReadHeaders, skip \in {0, 1}, limit \in {1, 100} :
          list_cars(h, skip, limit)
    \/ \E h \in ReadHeaders : list_my_cars(h)

SpecReads == Init /\ [][NextReads]_vars

(***************************************************************************)
(* SpecPay: hosts register and manage payment methods, one request at a    *)
(* time.                                                                   *)
(***************************************************************************)
NextPay ==
    \/ \E r \in RegisterRequests(ValidEmails) : register_host(r, 1)
    \/ \E h \in CallerHeaders, r \in MpesaRequests :
          add_mpesa_payment_method(h, r)
    \/ \E h \in CallerHeaders, r \in CardRequests, d \in Todays :
          add_card_payment_method(h, r, d, 1, 2)
    \/ \E h \in CallerHeaders : get_payment_methods(h)
    \/ \E h \in CallerHeaders, i \in 1..(MaxPms + 1) :
          get_payment_method(h, i)
    \/ \E h \in CallerHeaders, i \in 1..(MaxPms + 1) :
          delete_payment_method(h, i)
    \/ \E h \in CallerHeaders, i \in 1..(MaxPms + 1) :
          set_default_payment_method(h, i)

SpecPay == Init /\ [][NextPay]_vars

(***************************************************************************)
(* SpecConc: two workers serve one host's payment-method requests          *)
(* concurrently.                                                           *)
(***************************************************************************)
NextConc ==
    \/ \E r \in RegisterRequests({AnnEmail}) : register_host(r, 1)
    \/ \E w \in Workers, h \in HostHeaders,
          d \in {Some(TRUE), Some(FALSE)} :
          begin_add_mpesa(w, h, MpesaRequest(d))
    \/ \E w \in Workers, h \in HostHeaders, d \in Todays :
          begin_add_card(w, h, CardRequest("visa", Some(TRUE)), d, 1, 2)
    \/ \E w \in Workers, h \in HostHeaders, i \in 1..(MaxPms + 1) :
          begin_set_default(w, h, i)
    \/ \E w \in Workers : query_target(w)
    \/ \E w \in Workers : query_defaults(w)
    \/ \E w \in Workers : commit(w)

SpecConc == Init /\ [][NextConc]_vars

(***************************************************************************)
(* SpecRace: two workers serve registrations of hosts and of clients for   *)
(* two addresses, one of them also written with an upper-case domain, and  *)
(* with a confirmation that does not match.                                *)
(***************************************************************************)
RaceRequests == RegisterRequests({AnnEmail, AnnEmailUpperDomain, BobEmail})

NextRace ==
    \/ \E w \in Workers, r \in RaceRequests : begin_register_host(w, r, 1)
    \/ \E w \in Workers, r \in RaceRequests : begin_register_client(w, r, 2)
    \/ \E w \in Workers : commit_register(w)

SpecRace == Init /\ [][NextRace]_vars

(***************************************************************************)
(* Properties.                                                             *)
(***************************************************************************)
HostIds == 1..Len(hosts)

\* the ids of the payment methods of `host_id` that are flagged default
DefaultIds(rows, host_id) ==
    {r.id : r \in {x \in rows : x.host_id = host_id /\ x.is_default}}

PromotingOps ==
    {"add_mpesa_payment_method", "add_card_payment_method",
     "set_default_payment_method"}

\* C1: when the payment-method operations run one after another, every
\* host has at most one payment method with is_default = true after each
\* of them
C1_AtMostOneDefault ==
    \A h \in HostIds : Cardinality(DefaultIds(pms, h)) <= 1

\* C1's case: a promoting add or setDefault has just cleared an earlier
\* default of a host that owns two payment methods
C1_Witness ==
    /\ last.op \in PromotingOps
    /\ last.status \in {"200", "201"}
    /\ last.cleared # {}
    /\ Cardinality({r \in pms : r.host_id = last.who}) = 2
    /\ DefaultIds(pms, last.who) = {last.target}

\* C2: two requests of one host that both set a default, served
\* concurrently, never leave that host with two default payment methods
C2_NoTwoDefaults ==
    \A a \in pms, b \in pms :
        (a.host_id = b.host_id /\ a.is_default /\ b.is_default) => a.id = b.id

\* C3: a successful setDefault(B) on a host whose payment method A (A # B)
\* was the default ends with B the default and A not
C3_SetDefaultMoves ==
    [][(/\ last'.op = "set_default_payment_method"
        /\ last'.status = "200")
       => \A A \in pms :
            (A.host_id = last'.who /\ A.is_default /\ A.id # last'.target)
            => /\ DefaultIds(pms', last'.who) = {last'.target}
               /\ \E r \in pms' : r.id = A.id /\ ~r.is_default]_vars

\* C3's case: setDefault succeeded and cleared the flag of another record
C3_Witness ==
    /\ last.op = "set_default_payment_method"
    /\ last.status = "200"
    /\ last.cleared # {}
    /\ last.target \notin last.cleared
    /\ DefaultIds(pms, last.who) = {last.target}

\* a promotion of host_id has started and has not committed
PromotionInFlight(host_id) ==
    \E w \in Workers :
        pc[w] # "idle" /\ sess[w].promote /\ sess[w].host = host_id

\* C4: while a promotion of a host that has a default is in progress, every
\* committed state shows that host exactly one default: never none, never
\* the old and the new record together
C4_PromotionAtomic ==
    [][\A h \in HostIds :
          (PromotionInFlight(h) /\ DefaultIds(pms, h) # {})
          => Cardinality(DefaultIds(pms', h)) = 1]_vars

\* the header carries a correctly signed, unexpired token at time t
SignedAndFresh(hdr, t) ==
    /\ HTTPBearer(hdr)
    /\ hdr.credentials[1].kind = "jwt"
    /\ hdr.credentials[1].key = SECRET_KEY
    /\ (hdr.credentials[1].exp = None \/ hdr.credentials[1].exp[1] >= t)

RoleOf(hdr) == hdr.credentials[1].role

\* C5: a correctly signed, unexpired token whose role is not the one the
\* guard requires is refused with status 403 (WrongRole), not 401
C5_WrongRoleIs403 ==
    /\ (/\ last.op = "get_current_host"
        /\ SignedAndFresh(last.hdr, last.at)
        /\ RoleOf(last.hdr) = Some("client")) => last.status = "403"
    /\ (/\ last.op = "get_current_client"
        /\ SignedAndFresh(last.hdr, last.at)
        /\ RoleOf(last.hdr) = Some("host")) => last.status = "403"

HostOps ==
    {"logout_host", "get_current_host_info", "update_host_profile",
     "create_car_basics", "update_car_specs", "update_car_pricing",
     "update_car_location", "list_my_cars", "add_mpesa_payment_method",
     "add_card_payment_method", "get_payment_methods", "get_payment_method",
     "delete_payment_method", "set_default_payment_method"}

ClientOps == {"logout_client", "get_current_client_info"}

\* C6: the host guard resolves only tokens whose role claim is "host" and
\* the client guard only tokens whose role claim is "client", also when a
\* host and a client have the same id
C6_GuardsDisjoint ==
    /\ \A hdr \in GuardHeaders :
          /\ get_current_host(hdr, now, hosts).ok
                => RoleOf(hdr) = Some("host")
          /\ get_current_client(hdr, now, clients).ok
                => RoleOf(hdr) = Some("client")
          /\ ~(/\ get_current_host(hdr, now, hosts).ok
               /\ get_current_client(hdr, now, clients).ok)
    /\ last.op \in HostOps => RoleOf(last.hdr) = Some("host")
    /\ last.op \in ClientOps => RoleOf(last.hdr) = Some("client")

\* C6's case: host 1 and client 1 both exist, and the host guard has just
\* refused the token of client 1
C6_Witness ==
    /\ Len(hosts) >= 1
    /\ Len(clients) >= 1
    /\ last.op = "get_current_host"
    /\ last.hdr = Bearer(LoginToken(1, "client"))
    /\ last.who = 0
    /\ get_current_client(last.hdr, now, clients) = Authenticated(1)

\* the header carries a token the guard of `role_name` must accept
ValidFor(hdr, t, role_name, table) ==
    /\ SignedAndFresh(hdr, t)
    /\ RoleOf(hdr) = Some(role_name)
    /\ hdr.credentials[1].sub # None
    /\ IsIntString(hdr.credentials[1].sub[1])
    /\ int(hdr.credentials[1].sub[1]) \in 1..Len(table)

Store == <<hosts, clients, cars, pms, pm_seq>>

\* C7: a protected operation runs its handler, and the store changes under
\* it, only for a request whose token is correctly signed, unexpired, of
\* the required role, with an integer sub that names an existing
\* principal; a request with no usable Authorization header is refused as
\* unauthenticated by the security dependency and changes nothing
C7_GuardBeforeHandler ==
    [][/\ last'.op \in HostOps
            => /\ ValidFor(last'.hdr, last'.at, "host", hosts)
               /\ last'.who = int(last'.hdr.credentials[1].sub[1])
       /\ last'.op \in ClientOps
            => /\ ValidFor(last'.hdr, last'.at, "client", clients)
               /\ last'.who = int(last'.hdr.credentials[1].sub[1])
       /\ Store' # Store
            => last'.op \in HostOps \cup ClientOps
                              \cup {"register_host", "register_client"}
       /\ last'.op \in {"get_current_host", "get_current_client"}
            => Store' = Store /\ last'.who = 0
       /\ (last'.op \notin {"register_host", "register_client"}
             /\ ~HTTPBearer(last'.hdr))
            => /\ last'.op \in {"get_current_host", "get_current_client"}
               /\ last'.status = "NotAuthenticated"]_vars

\* C7's case: a request with no Authorization header has just been refused
\* while a host with a car and a payment method exists
C7_Witness ==
    /\ last.op = "get_current_host"
    /\ last.hdr = NoHeader
    /\ last.status = "NotAuthenticated"
    /\ Len(hosts) >= 1
    /\ Len(cars) >= 1
    /\ pms # {}

GuardOps == HostOps \cup ClientOps \cup {"get_current_host", "get_current_client"}

\* the request `last` describes presented an issued token to a guard
PresentedIssued ==
    /\ last.op \in GuardOps
    /\ HTTPBearer(last.hdr)
    /\ last.hdr.credentials[1] \in issued

TtlSeconds == {1, 900, 1800}

\* issue at the current time with ttl, verify at time t
VerifyIssued(id, role_name, ttl, t) ==
    jwt_decode(create_access_token([sub |-> str(id), role |-> role_name],
                                   Some(ttl), now), SECRET_KEY, t)

CarIds == 1..Len(cars)

\* C9: is_complete of a car never goes from true back to false, whatever
\* stage is called on it afterwards
C9_CompleteIsMonotone ==
    [][/\ Len(cars') >= Len(cars)
       /\ \A c \in CarIds : cars[c].is_complete => cars'[c].is_complete]_vars

\* C9's case: stage 2 has just rewritten a car that is complete
C9_Witness ==
    /\ last.op = "update_car_specs"
    /\ last.status = "200"
    /\ cars[last.target].is_complete
    /\ cars[last.target].seats # None

\* the step is a successful stage-4 call on car c by its owner
LocatedByOwner(c) ==
    /\ last'.op = "update_car_location"
    /\ last'.status = "200"
    /\ last'.target = c
    /\ last'.who = cars[c].host_id

\* C10: a car is complete exactly when a stage-4 call on it by its owner
\* has succeeded: a new car is incomplete, a successful stage-4 call makes
\* it complete whatever stages ran before, and no other step does
C10_CompleteIffLocated ==
    [][\A c \in 1..Len(cars') :
          cars'[c].is_complete <=>
              /\ c \in CarIds
              /\ cars[c].is_complete \/ LocatedByOwner(c)]_vars

\* C10's case: a car is complete after stage 4 although stages 2 and 3
\* never ran on it
C10_Witness ==
    /\ last.op = "update_car_location"
    /\ last.status = "200"
    /\ cars[last.target].is_complete
    /\ cars[last.target].seats = None
    /\ cars[last.target].daily_rate = None

StageOps == {"update_car_specs", "update_car_pricing", "update_car_location"}

\* the body of a stage 2-4 request passes its schema
StageBodyValid(op, request) ==
    IF op = "update_car_specs" THEN CarTechnicalSpecsValid(request)
    ELSE IF op = "update_car_pricing"
    THEN CarPricingRulesRequest(request) # None
    ELSE CarLocationValid(request)

\* C11: a host that calls stage 2, 3 or 4 (with a well-formed body) on a
\* car of another host is answered 403 Forbidden, and whatever the body,
\* no field of any car changes
C11_NonOwnerForbidden ==
    [][(/\ last'.op \in StageOps
        /\ last'.target \in CarIds
        /\ cars[last'.target].host_id # last'.who)
       => /\ cars' = cars
          /\ last'.status \in {"403", "422"}
          /\ StageBodyValid(last'.op, last'.sent[1]) => last'.status = "403"
          /\ last'.body = None]_vars

\* C11's case: stage 4 by a host that does not own the car was refused and
\* the car is still incomplete
C11_Witness ==
    /\ last.op = "update_car_location"
    /\ last.status = "403"
    /\ last.target \in CarIds
    /\ cars[last.target].host_id # last.who
    /\ ~cars[last.target].is_complete

\* C12: a stage 2, 3 or 4 call (with a well-formed body) by an
\* authenticated host on a car id that does not exist is answered 404
\* NotFound, never 403, and the whole store is unchanged
C12_MissingCarNotFound ==
    [][(/\ last'.op \in StageOps
        /\ last'.target \notin CarIds)
       => /\ Store' = Store
          /\ last'.who \in HostIds
          /\ last'.status \in {"404", "422"}
          /\ StageBodyValid(last'.op, last'.sent[1]) => last'.status = "404"]_vars

\* C12's case: a stage call on a missing id was answered 404 while another
\* car exists
C12_Witness ==
    /\ last.op \in StageOps
    /\ last.status = "404"
    /\ last.target \notin CarIds
    /\ Len(cars) >= 1

LaterStageFields ==
    {"seats", "fuel_type", "transmission", "color", "mileage", "features",
     "daily_rate", "weekly_rate", "monthly_rate", "min_rental_days",
     "max_rental_days", "min_age_requirement", "rules", "location_name",
     "latitude", "longitude"}

\* C13: a successful stage 1 call appends one car owned by the caller,
\* incomplete, with every Specs, Pricing and Location field null, and
\* leaves every existing car as it was; a refused one changes no car
C13_BasicsCreatesFresh ==
    [][last'.op = "create_car_basics"
       => IF last'.status = "201"
          THEN /\ Len(cars') = Len(cars) + 1
               /\ \A c \in CarIds : cars'[c] = cars[c]
               /\ cars'[Len(cars')].id = Len(cars')
               /\ last'.target = Len(cars')
               /\ cars'[Len(cars')].host_id = last'.who
               /\ last'.who = int(last'.hdr.credentials[1].sub[1])
               /\ ~cars'[Len(cars')].is_complete
               /\ \A f \in LaterStageFields : cars'[Len(cars')][f] = None
          ELSE cars' = cars]_vars

\* C13's case: stage 1 has just created a second car next to a car that is
\* located and complete
C13_Witness ==
    /\ last.op = "create_car_basics"
    /\ last.status = "201"
    /\ Len(cars) = 2
    /\ cars[1].is_complete
    /\ cars[1].location_name # None
    /\ cars[2].host_id = last.who
    /\ ~cars[2].is_complete

\* the row stores a name, coordinates, or no location
HasName(car) == car.location_name # None
HasCoordinates(car) == car.latitude # None /\ car.longitude # None

\* C14: no car ever holds both a location name and coordinates, latitude
\* and longitude are null together or set together, and after a successful
\* stage 4 call the car stores exactly the representation supplied (also
\* when that replaces the other one) and the other is null
C14_OneLocationForm ==
    /\ \A c \in CarIds :
          /\ ~(HasName(cars[c])
               /\ (cars[c].latitude # None \/ cars[c].longitude # None))
          /\ cars[c].latitude = None <=> cars[c].longitude = None
    /\ (last.op = "update_car_location" /\ last.status = "200")
          => IF Truthy(last.sent[1].location_name)
             THEN /\ cars[last.target].location_name
                        = last.sent[1].location_name
                  /\ cars[last.target].latitude = None
                  /\ cars[last.target].longitude = None
                  /\ last.body[1].latitude = None
                  /\ last.body[1].longitude = None
             ELSE /\ cars[last.target].location_name = None
                  /\ last.body[1].location_name = None
                  /\ HasCoordinates(cars[last.target])
                  /\ cars[last.target].latitude = last.sent[1].latitude
                  /\ cars[last.target].longitude = last.sent[1].longitude

\* C14's case: stage 4 with a name has just replaced stored coordinates
C14_Witness ==
    /\ last.op = "update_car_location"
    /\ last.status = "200"
    /\ HasCoordinates(last.loaded[1])
    /\ HasName(cars[last.target])
    /\ ~HasCoordinates(cars[last.target])

KeyFields == {"id", "host_id"}
BasicsFields == {"name", "model", "body_type", "year", "description"}
SpecsFields ==
    {"seats", "fuel_type", "transmission", "color", "mileage", "features"}
PricingFields ==
    {"daily_rate", "weekly_rate", "monthly_rate", "min_rental_days",
     "max_rental_days", "min_age_requirement", "rules"}
LocationFields == {"location_name", "latitude", "longitude"}
CarFields ==
    KeyFields \cup BasicsFields \cup SpecsFields \cup PricingFields
        \cup LocationFields \cup {"is_complete"}

\* the fields a successful call of the operation may write
FieldGroup(op) ==
    IF op = "update_car_specs" THEN SpecsFields
    ELSE IF op = "update_car_pricing" THEN PricingFields
    ELSE IF op = "update_car_location"
    THEN LocationFields \cup {"is_complete"}
    ELSE {}

\* the required fields of a group are null together or set together
GroupWhole(car, fields) ==
    (\A f \in fields : car[f] = None) \/ (\A f \in fields : car[f] # None)

\* C15: a stage writes only the fields of its own group, on the car it
\* names, and only when it succeeds: stage 2 the technical specs, stage 3
\* the pricing and rules, stage 4 the location and is_complete; id, host_id
\* and the Basics fields never change; so each group of a car is wholly
\* null until its stage has run, and a read returns the stored fields
C15_StageWritesOwnGroup ==
    [][/\ \A c \in CarIds : \A f \in CarFields :
             cars'[c][f] # cars[c][f]
             => /\ last'.target = c
                /\ last'.status = "200"
                /\ f \in FieldGroup(last'.op)
       /\ \A c \in 1..Len(cars') :
             /\ GroupWhole(cars'[c], SpecsFields \ {"features"})
             /\ GroupWhole(cars'[c], PricingFields \ {"max_rental_days"})
             /\ cars'[c].seats = None => cars'[c].features = None
             /\ cars'[c].daily_rate = None => cars'[c].max_rental_days = None
             /\ \A f \in BasicsFields : cars'[c][f] # None
       /\ (last'.op \in StageOps \cup {"get_car"} /\ last'.status = "200")
             => last'.body = Some(car_to_response(cars'[last'.target]))]_vars

\* C15's case: stage 3 has just run on a car that never saw stage 2 or 4,
\* and the body returned has the pricing fields set and the rest null
C15_Witness ==
    /\ last.op = "update_car_pricing"
    /\ last.status = "200"
    /\ \A f \in PricingFields \ {"max_rental_days"} : last.body[1][f] # None
    /\ \A f \in SpecsFields \cup LocationFields : last.body[1][f] = None
    /\ ~last.body[1].is_complete

\* the max_rental_days the Pricing stage stores for the value submitted
StoredMaxRentalDays(m) == IF m = Some(0) THEN None ELSE m

\* C16: the Pricing stage stores max_rental_days = 0 as null, stores 5 (any
\* value >= 1) as sent and refuses a negative value with 422 without
\* writing, and reads return the stored value; so every stored
\* max_rental_days is null or >= 1
C16_MaxRentalDays ==
    [][/\ \A c \in 1..Len(cars') :
             \/ cars'[c].max_rental_days = None
             \/ cars'[c].max_rental_days[1] >= 1
       /\ last'.op = "update_car_pricing"
             => IF /\ last'.sent[1].max_rental_days # None
                   /\ last'.sent[1].max_rental_days[1] < 0
                THEN /\ last'.status = "422"
                     /\ cars' = cars
                ELSE last'.status = "200"
                     => /\ cars'[last'.target].max_rental_days =
                              StoredMaxRentalDays(last'.sent[1].max_rental_days)
                        /\ last'.body[1].max_rental_days =
                              StoredMaxRentalDays(last'.sent[1].max_rental_days)
       /\ (last'.op = "get_car" /\ last'.status = "200")
             => last'.body[1].max_rental_days =
                   cars'[last'.target].max_rental_days]_vars

\* C16's case: max_rental_days = 0 has just been stored as null and is
\* returned as null
C16_Witness ==
    /\ last.op = "update_car_pricing"
    /\ last.status = "200"
    /\ last.sent[1].max_rental_days = Some(0)
    /\ cars[last.target].max_rental_days = None
    /\ cars[last.target].daily_rate # None
    /\ last.body[1].max_rental_days = None

\* C17: the features list round-trips exactly: after a successful stage 2
\* call with a list of 0 to 12 strings, reading the car returns the same
\* strings in the same order
C17_FeaturesRoundTrip ==
    (last.op = "update_car_specs" /\ last.status = "200")
    => /\ last.body[1].features = Some(last.sent[1].features)
       /\ car_to_response(cars[last.target]).features
             = Some(last.sent[1].features)

ReadOps == {"get_car", "list_cars", "list_my_cars"}

\* the elements of a sequence
Range(seq) == {seq[i] : i \in 1..Len(seq)}

\* C18: get_car and list_cars answer every caller, with or without a
\* token, with the cars as stored, complete or not and whoever owns them;
\* list_my_cars returns exactly the cars whose host_id is the authenticated
\* caller's id; no read changes the store
C18_ReadsUnfiltered ==
    [][/\ last'.op \in ReadOps => Store' = Store /\ last'.cleared = {}
       /\ last'.op = "get_car"
             => IF last'.target \in CarIds
                THEN /\ last'.status = "200"
                     /\ last'.body = Some(car_to_response(cars[last'.target]))
                ELSE last'.status = "404" /\ last'.body = None
       /\ last'.op = "list_cars"
             => /\ last'.status = "200"
                /\ Range(last'.body[1])
                      \subseteq {car_to_response(cars[c]) : c \in CarIds}
                /\ (last'.sent[1].skip = 0
                      /\ last'.sent[1].limit >= Len(cars))
                      => last'.body[1]
                            = [c \in CarIds |-> car_to_response(cars[c])]
       /\ last'.op = "list_my_cars"
             => /\ ValidFor(last'.hdr, last'.at, "host", hosts)
                /\ last'.who = int(last'.hdr.credentials[1].sub[1])
                /\ last'.body[1] =
                      {car_to_response(cars[c]) :
                          c \in {x \in CarIds : cars[x].host_id = last'.who}}
      ]_vars

\* C18's case: a caller with no token has just read an incomplete car of
\* host 2 by id while host 1 owns another car
C18_Witness ==
    /\ last.op = "get_car"
    /\ last.hdr = NoHeader
    /\ last.status = "200"
    /\ ~last.body[1].is_complete
    /\ last.body[1].host_id = 2
    /\ \E c \in CarIds : cars[c].host_id = 1

\* the rows of host_id
OwnRows(rows, host_id) == {r \in rows : r.host_id = host_id}

\* C19: a successful delete removes exactly the targeted record of the
\* caller and changes no other record, so deleting the host's default
\* leaves the host with no default: no other record is promoted
C19_DeleteDefaultLeavesNone ==
    [][(last'.op = "delete_payment_method" /\ last'.status = "204")
       => /\ \E r \in pms : /\ r.id = last'.target
                            /\ r.host_id = last'.who
                            /\ pms' = pms \ {r}
                            /\ r.is_default
                                  => DefaultIds(pms', last'.who) = {}
          /\ pm_seq' = pm_seq]_vars

\* C19's case: the host's default has just been deleted, the host still
\* has a record, and it has no default
C19_Witness ==
    /\ last.op = "delete_payment_method"
    /\ last.status = "204"
    /\ last.deleted[1].is_default
    /\ OwnRows(pms, last.who) # {}
    /\ DefaultIds(pms, last.who) = {}

PaymentMethodOps ==
    {"get_payment_method", "delete_payment_method",
     "set_default_payment_method"}

\* C20: set_default, delete and get of an id that names no payment method
\* of the caller (no record, or another host's) are answered 404 and change
\* nothing: every record and every is_default flag stays as it was
C20_ForeignIdNotFound ==
    [][(/\ last'.op \in PaymentMethodOps
        /\ ~\E r \in pms : r.id = last'.target /\ r.host_id = last'.who)
       => /\ last'.status = "404"
          /\ last'.detail = "Payment method not found"
          /\ Store' = Store
          /\ last'.cleared = {}
          /\ last'.deleted = None]_vars

\* C20's case: set_default or delete has just been refused on the default
\* record of another host, which is still that host's default
C20_Witness ==
    /\ last.op \in {"delete_payment_method", "set_default_payment_method"}
    /\ last.status = "404"
    /\ \E r \in pms : /\ r.id = last.target
                      /\ r.host_id # last.who
                      /\ r.is_default
    /\ OwnRows(pms, last.who) # {}

RegisterOps == {"register_host", "register_client"}

\* C21: a registration whose password and password_confirmation differ is
\* answered 422 and writes nothing: no host and no client is created and no
\* existing one changes
C21_MismatchRejected ==
    [][(/\ last'.op \in RegisterOps
        /\ last'.sent # None
        /\ last'.sent[1].password # last'.sent[1].password_confirmation)
       => /\ last'.status = "422"
          /\ hosts' = hosts
          /\ clients' = clients]_vars

\* C21's case: with a host on record, a registration of a new address with
\* two acceptable passwords that differ has just been refused
C21_Witness ==
    /\ last.op = "register_host"
    /\ last.status = "422"
    /\ Len(hosts) = 1
    /\ EmailStr(last.sent[1].email) # None
    /\ get_by_email(hosts, EmailStr(last.sent[1].email)[1]) = None
    /\ Len(last.sent[1].password) >= 8
    /\ Len(last.sent[1].password_confirmation) >= 8
    /\ last.sent[1].password # last.sent[1].password_confirmation

\* the emails of a table are pairwise different
EmailsUnique(table) ==
    \A i, j \in 1..Len(table) : i # j => table[i].email # table[j].email

\* the table a registration operation writes
RegisterTable(op) == IF op = "register_host" THEN hosts ELSE clients

\* C22: after every registration no two hosts and no two clients share an
\* email as stored; a registration whose address, as the schema yields it,
\* is already stored for that account type is answered 400 "Email already
\* registered" and writes nothing
C22_EmailsUnique ==
    [][/\ EmailsUnique(hosts') /\ EmailsUnique(clients')
       /\ (/\ last'.op \in RegisterOps
           /\ last'.sent # None
           /\ RegisterRequestValid(last'.sent[1])
           /\ get_by_email(RegisterTable(last'.op),
                           EmailStr(last'.sent[1].email)[1]) # None)
          => /\ last'.status = "400"
             /\ last'.detail = "Email already registered"
             /\ hosts' = hosts
             /\ clients' = clients]_vars

\* C22's case: two hosts are stored whose emails differ only in the case of
\* the local part, and a registration of the first address written with an
\* upper-case domain has just been refused as already registered
C22_Witness ==
    /\ Len(hosts) = 2
    /\ lower(hosts[1].email) = lower(hosts[2].email)
    /\ last.op = "register_host"
    /\ last.status = "400"
    /\ last.sent[1].email = AnnEmailUpperDomain

\* a string that is not the digest bcrypt returned for any secret: it has
\* no salt, or its characters after the salt were damaged
Malformed(hashed) == ~HasSalt(hashed) \/ ~hashed.intact

\* C23: verify_password returns false when the hash is malformed and when
\* the secret is not the one the digest was computed from, and never raises
C23_VerifyFalseNeverRaises ==
    (last.op = "verify_password"
     /\ (\/ Malformed(last.sent[1].hashed_password)
         \/ last.sent[1].hashed_password.secret
               # last.sent[1].plain_password))
        => last.body = Some(Returned(FALSE))

\* C24: two calls of get_password_hash on one secret, each with its own
\* salt, return and return different strings; verify_password of a secret
\* against a digest of it is true; verify_password of any other secret
\* against that digest is false
C24_HashVerifyRoundTrip ==
    /\ last.op = "get_password_hash"
          => /\ ~last.body[1].raised
             /\ \A n \in Salts \ {last.sent[1].salt} :
                   \A h \in get_password_hash(last.sent[1].password, n) :
                      h # last.body[1]
    /\ \A x \in Secrets : \A n \in Salts : \A h \in get_password_hash(x, n) :
          (/\ ~h.raised
           /\ last.op = "verify_password"
           /\ last.sent[1].hashed_password = h.value[1])
             => last.body = Some(Returned(last.sent[1].plain_password = x))

\* the columns of a payment method row
PaymentMethodFields ==
    {"id", "host_id", "method_type", "mpesa_number", "card_number_hash",
     "card_last_four", "card_type", "expiry_month", "expiry_year", "cvc_hash",
     "is_default", "created_at"}

HashFields == {"card_number_hash", "cvc_hash"}

\* the salts the card hashes are computed with
CardSalts == {1, 2}

\* the value is a digest get_password_hash returns for the secret
HashOf(value, secret) ==
    \E n \in CardSalts : Returned(value) \in get_password_hash(secret, n)

\* the payment methods a response body holds
BodyPaymentMethods(response) ==
    IF response.body = None THEN {}
    ELSE IF response.op = "get_payment_methods" THEN Range(response.body[1])
    ELSE {response.body[1]}

PaymentResponseOps ==
    {"add_mpesa_payment_method", "add_card_payment_method",
     "get_payment_methods", "get_payment_method",
     "set_default_payment_method"}

\* C25: the row stored for a card holds, of the number and the CVC, only
\* the digests get_password_hash returns for them and the last four digits
\* of the number with whitespace and dashes removed; every other column is
\* the type, the expiry date, the flag and the keys; and no response body
\* of the payment endpoints has a hash column, only columns of the row
C25_CardSecretsHashed ==
    [][/\ (last'.op = "add_card_payment_method" /\ last'.status = "201")
          => LET row == RowById(pms', last'.target)
                 sent == last'.sent[1]
                 number == Strip(sent.card_number, Whitespace \cup {"-"})
                 cvc == Strip(sent.cvc, Whitespace)
             IN /\ DOMAIN row = PaymentMethodFields
                /\ HashOf(row.card_number_hash[1], number)
                /\ HashOf(row.cvc_hash[1], cvc)
                /\ row.card_last_four = Some(SubSeq(number, 13, 16))
                /\ row.mpesa_number = None
                /\ row.method_type = sent.card_type
                /\ row.card_type = Some(sent.card_type)
                /\ row.expiry_month = Some(sent.expiry_month)
                /\ row.expiry_year = Some(sent.expiry_year)
                /\ row.is_default = (sent.is_default = Some(TRUE))
                /\ row.host_id = last'.who
       /\ \A r \in pms' : r.card_type # None =>
             /\ HasSalt(r.card_number_hash[1]) /\ r.card_number_hash[1].intact
             /\ HasSalt(r.cvc_hash[1]) /\ r.cvc_hash[1].intact
             /\ DigitsOfLength(r.card_last_four[1], 4, 4)
       /\ last'.op \in PaymentResponseOps
          => \A b \in BodyPaymentMethods(last') :
                /\ DOMAIN b = PaymentMethodFields \ HashFields
                /\ \E r \in pms' : \A f \in DOMAIN b : b[f] = r[f]]_vars

\* C25's case: a card sent with spaces in its number has just been added,
\* and the body returned shows its last four digits
C25_Witness ==
    /\ last.op = "add_card_payment_method"
    /\ last.status = "201"
    /\ last.sent[1].card_number = VisaNumber
    /\ last.body[1].card_last_four = Some(<<"1", "1", "1", "1">>)
    /\ \E r \in pms : r.id = last.target /\ r.cvc_hash # None

\* the date the card requests are validated on
Today == CHOOSE d \in Todays : TRUE

\* the number is exactly 16 digits once the characters of `drop` are removed
NumberIs16Digits(request, drop) ==
    LET number == Strip(request.card_number, drop) IN
    /\ Len(number) = 16
    /\ \A i \in 1..16 : number[i] \in Digits

\* the first digit is the declared brand's: 4 for visa, 5 for mastercard
BrandMatches(request, drop) ==
    LET number == Strip(request.card_number, drop) IN
    /\ number # <<>>
    /\ request.card_type = "visa" => number[1] = "4"
    /\ request.card_type = "mastercard" => number[1] = "5"

\* the text is 3 or 4 digits
IsCvc(text) == Len(text) \in {3, 4} /\ \A i \in 1..Len(text) : text[i] \in Digits

\* (expiry_year, expiry_month) is strictly before the current (year, month)
ExpiredBefore(request, today) ==
    \/ request.expiry_year < today.year
    \/ request.expiry_year = today.year /\ request.expiry_month < today.month

\* an addCard request by an authenticated host that must be refused is
\* answered 422 and leaves every payment method, default or not, as it was
CardRefusedWhen(must_refuse) ==
    (last'.op = "add_card_payment_method" /\ must_refuse)
        => last'.status = "422" /\ pms' = pms /\ pm_seq' = pm_seq

\* the conditions of refusal with the number cleaned of spaces and dashes
\* and the CVC taken as sent
MustRefuseAsWritten(request) ==
    \/ ~NumberIs16Digits(request, {" ", "-"})
    \/ ~BrandMatches(request, {" ", "-"})
    \/ ~IsCvc(request.cvc)
    \/ ExpiredBefore(request, Today)

\* the conditions of refusal with whitespace of any kind removed from the
\* number and from the CVC
MustRefuse(request) ==
    \/ ~NumberIs16Digits(request, Whitespace \cup {"-"})
    \/ ~BrandMatches(request, Whitespace \cup {"-"})
    \/ ~IsCvc(Strip(request.cvc, Whitespace))
    \/ ExpiredBefore(request, Today)

C27_ListOrdered ==
    [][(last'.op = "get_payment_methods" /\ last'.status = "200")
       => LET b == last'.body[1]
              own == OwnRows(pms', last'.who)
          IN /\ Len(b) = Cardinality(own)
             /\ \A r \in own : \E i \in 1..Len(b) :
                   b[i] = PaymentMethodResponse(r)
             /\ \A i, j \in 1..Len(b) : i < j =>
                   /\ b[j].is_default => b[i].is_default
                   /\ b[i].is_default = b[j].is_default
                         => b[i].created_at >= b[j].created_at]_vars

\* C27's case: the caller's default was created before another record of
\* theirs and is listed first
C27_Witness ==
    /\ last.op = "get_payment_methods"
    /\ last.status = "200"
    /\ Len(last.body[1]) = 2
    /\ last.body[1][1].is_default
    /\ last.body[1][1].created_at < last.body[1][2].created_at

LogoutOps == {"logout_host", "logout_client"}

\* the guard that belongs to the role of a logout operation refused
RefusedByOwnGuard(logout_op, response) ==
    response.op = (IF logout_op = "logout_host" THEN "get_current_host"
                   ELSE "get_current_client")

\* C28: a logout changes nothing on the server: the store and the tokens
\* handed out are as before; and the token that logged out is
\* accepted again by the guard of its role on the next request that
\* carries it, whenever that request is served before the token's exp, as
\* is every token handed out, at every time before its exp
C28_LogoutNoEffect ==
    [][/\ last'.op \in LogoutOps
          => /\ last'.status = "200"
             /\ Store' = Store
             /\ issued' = issued
       /\ (/\ last.op \in LogoutOps
           /\ last'.hdr = last.hdr
           /\ last'.at < last.hdr.credentials[1].exp[1])
          => /\ ~RefusedByOwnGuard(last.op, last')
             /\ last'.op \in HostOps \cup ClientOps => last'.who = last.who
       /\ \A t \in issued' : now' < t.exp[1] =>
             IF t.role = Some("host")
             THEN get_current_host(Bearer(t), now', hosts').ok
             ELSE get_current_client(Bearer(t), now', clients').ok]_vars

\* C28's case: a host logged out, time has passed, and the token it logged
\* out with, not yet expired, still resolves to the host
C28_Witness ==
    /\ last.op = "logout_host"
    /\ last.status = "200"
    /\ now > last.at
    /\ now < last.hdr.credentials[1].exp[1]
    /\ get_current_host(last.hdr, now, hosts) = Authenticated(last.who)

\* C29: a token a login returns expires 30 minutes after it was issued;
\* create_access_token called without expires_delta sets exp 15 minutes
\* ahead, and called with any expires_delta, a zero one included, sets exp
\* to the time of the call plus that duration
C29_TokenLifetime ==
    /\ (last.op \in {"login_host", "login_client"} /\ last.status = "200")
          => last.token[1].exp = Some(last.at + 30 * 60)
    /\ last.op = "create_access_token"
          => last.token[1].exp =
                Some(IF last.sent[1].expires_delta = None
                     THEN last.at + 15 * 60
                     ELSE last.at + last.sent[1].expires_delta[1])

\* the last request carried a token and a guard refused it
TokenRefused ==
    /\ last.op \in {"get_current_host", "get_current_client"}
    /\ HTTPBearer(last.hdr)

\* the token is well-formed, correctly signed and past its exp at time t
SignedAndPastExp(token, t) ==
    /\ token.kind = "jwt"
    /\ token.key = SECRET_KEY
    /\ token.exp # None
    /\ token.exp[1] < t

\* the token has broken structure or a bad signature
BrokenOrBadlySigned(token) ==
    \/ token.kind \in {"garbage", "no-json-header"}
    \/ token.key # SECRET_KEY

\* the token lacks the sub or the role claim
MissingClaims(token) ==
    /\ token.kind = "jwt"
    /\ token.sub = None \/ token.role = None

\* C30: a token a guard refuses is answered 401; the answer is "Token has
\* expired" if and only if the token is well-formed, correctly signed and
\* past its exp; a token with broken structure or a bad signature is
\* answered "Invalid token: ..." and never as expired, and one that lacks a
\* claim and is not past its exp is not answered as expired either
C30_ExpiredIffPastExp ==
    TokenRefused =>
        /\ last.status = "401"
        /\ last.detail = "Token has expired"
              <=> SignedAndPastExp(last.hdr.credentials[1], last.at)
        /\ BrokenOrBadlySigned(last.hdr.credentials[1])
              => last.detail \in {"Invalid token: " \o MsgSegments,
                                  "Invalid token: " \o MsgHeader,
                                  "Invalid token: " \o MsgSignature}
        /\ (/\ MissingClaims(last.hdr.credentials[1])
            /\ ~SignedAndPastExp(last.hdr.credentials[1], last.at))
              => last.detail # "Token has expired"

\* the sub of the token is no integer, or the id of no row of the table
UnresolvableSub(hdr, table) ==
    /\ hdr.credentials[1].sub # None
    /\ \/ ~IsIntString(hdr.credentials[1].sub[1])
       \/ int(hdr.credentials[1].sub[1]) \notin 1..Len(table)

\* the header carries a correctly signed, unexpired token of the role whose
\* sub resolves to no principal in the table
SignedForNobody(hdr, t, role_name, table) ==
    /\ SignedAndFresh(hdr, t)
    /\ RoleOf(hdr) = Some(role_name)
    /\ UnresolvableSub(hdr, table)

\* C31: a correctly signed, unexpired token of the role a guard expects,
\* whose sub is no integer or names no existing principal of that role, is
\* refused by the guard with status 401 and never yields a principal:
\* no handler runs for it
C31_UnresolvableSubIs401 ==
    /\ \A hdr \in GuardHeaders :
          /\ SignedForNobody(hdr, now, "host", hosts)
                => /\ ~get_current_host(hdr, now, hosts).ok
                   /\ get_current_host(hdr, now, hosts).status = "401"
                   /\ get_current_host(hdr, now, hosts).id = 0
          /\ SignedForNobody(hdr, now, "client", clients)
                => /\ ~get_current_client(hdr, now, clients).ok
                   /\ get_current_client(hdr, now, clients).status = "401"
                   /\ get_current_client(hdr, now, clients).id = 0
    /\ (/\ last.op \in HostOps \cup {"get_current_host"}
        /\ SignedForNobody(last.hdr, last.at, "host", hosts))
          => /\ last.op = "get_current_host"
             /\ last.status = "401"
             /\ last.who = 0
    /\ (/\ last.op \in ClientOps \cup {"get_current_client"}
        /\ SignedForNobody(last.hdr, last.at, "client", clients))
          => /\ last.op = "get_current_client"
             /\ last.status = "401"
             /\ last.who = 0

\* C31's case: while host 1 exists, the host guard has just refused a
\* correctly signed, unexpired host token whose sub names host 3
C31_Witness ==
    /\ Len(hosts) = 1
    /\ last.op = "get_current_host"
    /\ last.hdr = Bearer(Jwt(Some("3"), Some("host"), Some(MaxTime), SECRET_KEY))
    /\ last.at <= MaxTime
    /\ last.status = "401"
    /\ last.detail = "Host not found"

\* C32: whatever the interleaving of the lookups and the inserts of two
\* registrations, no two accounts of a type share an email, and a
\* registration that passed validation and created no account is answered
\* 400 "Email already registered"
C32_RaceLoserConflict ==
    /\ EmailsUnique(hosts)
    /\ EmailsUnique(clients)
    /\ (last.op \in RegisterOps /\ last.status \notin {"201", "422"})
          => /\ last.status = "400"
             /\ last.detail = "Email already registered"

PaymentWriteOps ==
    {"add_mpesa_payment_method", "add_card_payment_method",
     "set_default_payment_method", "delete_payment_method"}

\* the records of every host but `host_id`
OtherRows(rows, host_id) == {r \in rows : r.host_id # host_id}

\* C33: add_mpesa, add_card, set_default and delete served for host H
\* change only records whose host_id is H: the records of every other
\* host, their is_default flag included, are after the request what they
\* were before it, and the defaults the request cleared are records of H
C33_WritesScopedToCaller ==
    [][last'.op \in PaymentWriteOps
         => /\ OtherRows(pms', last'.who) = OtherRows(pms, last'.who)
            /\ \A r \in (pms' \ pms) \cup (pms \ pms') :
                  r.host_id = last'.who
            /\ \A id \in last'.cleared :
                  \E r \in pms : r.id = id /\ r.host_id = last'.who]_vars

\* C33's case: host 2 has just added a default payment method while the
\* default of host 1 is still a default
C33_Witness ==
    /\ last.op \in {"add_mpesa_payment_method", "add_card_payment_method"}
    /\ last.status = "201"
    /\ last.who = 2
    /\ \E r \in pms : r.id = last.target /\ r.host_id = 2 /\ r.is_default
    /\ \E r \in pms : r.host_id = 1 /\ r.is_default

LoginOps == {"login_host", "login_client"}

\* the table a login reads, and the role it issues tokens for
LoginTable(op) == IF op = "login_host" THEN hosts ELSE clients
LoginRole(op) == IF op = "login_host" THEN "host" ELSE "client"

\* the account the address of the login request names, if any
LoginAccount(response) ==
    get_by_email(LoginTable(response.op),
                 EmailStr(response.sent[1].email)[1])

\* the password of the request is not the one the account registered with
WrongPassword(response) ==
    LoginAccount(response)[1].hashed_password.secret
        # response.sent[1].password

\* C34: a login with an address that names no account of the endpoint's
\* type and a login with the address of an account and a password that is
\* not the account's are answered alike, 401 "Incorrect email or
\* password", with no token and no change of state; a token is returned
\* only when the account exists and the password verifies, and then its
\* sub is the account's id and its role the endpoint's
C34_LoginFailureUniform ==
    [][(/\ last'.op \in LoginOps
        /\ last' # last
        /\ EmailStr(last'.sent[1].email) # None)
         => /\ (\/ LoginAccount(last') = None
                \/ WrongPassword(last'))
                 => /\ last'.status = "401"
                    /\ last'.detail = "Incorrect email or password"
                    /\ last'.token = None
                    /\ Store' = Store
                    /\ issued' = issued
            /\ last'.token # None
                 => /\ last'.status = "200"
                    /\ LoginAccount(last') # None
                    /\ \E v \in verify_password(
                              last'.sent[1].password,
                              LoginAccount(last')[1].hashed_password) :
                          ~v.raised /\ v.value[1]
                    /\ last'.token[1].sub
                          = Some(str(LoginAccount(last')[1].id))
                    /\ last'.token[1].role = Some(LoginRole(last'.op))]_vars

\* C35: host_id of a car is set by stage 1 to the caller and never changes
\* afterwards; a new car has every Specs, Pricing and Location field null,
\* and a field of those groups changes only under a successful stage call
\* on that car by a request authenticated as the host that owns it; so
\* every non-null field of those groups was written by the car's creator
C35_OwnerNeverChanges ==
    [][/\ Len(cars') >= Len(cars)
       /\ \A c \in CarIds : cars'[c].host_id = cars[c].host_id
       /\ \A c \in (Len(cars) + 1)..Len(cars') :
             /\ last'.op = "create_car_basics"
             /\ cars'[c].host_id = last'.who
             /\ \A f \in SpecsFields \cup PricingFields \cup LocationFields :
                   cars'[c][f] = None
       /\ \A c \in CarIds :
             \A f \in SpecsFields \cup PricingFields \cup LocationFields :
                cars'[c][f] # cars[c][f]
                => /\ last'.op \in StageOps
                   /\ last'.target = c
                   /\ ValidFor(last'.hdr, last'.at, "host", hosts)
                   /\ int(last'.hdr.credentials[1].sub[1]) = cars[c].host_id
                   /\ last'.who = cars[c].host_id]_vars

\* C35's case: host 2 has just been refused on the car of host 1, whose
\* specs, pricing and location are all set
C35_Witness ==
    /\ last.op \in StageOps
    /\ last.status = "403"
    /\ last.who = 2
    /\ last.target = 1
    /\ cars[1].host_id = 1
    /\ cars[1].seats # None
    /\ cars[1].daily_rate # None
    /\ HasName(cars[1]) \/ HasCoordinates(cars[1])

====
